---- MODULE Spec2Model ----
(***************************************************************************)
(* A model of the AI request orchestration core of commit-x:              *)
(*   - RequestBatcher (src/src/utils/dependency-analyzer.ts)              *)
(*   - AIService.parseAggregatedResponse and its helpers                  *)
(*     (src/src/services/ai.ts)                                           *)
(*   - AIService.generateAggregatedCommits / executeAggregatedCommit-     *)
(*     Generation (src/src/services/ai.ts)                                *)
(* Each component has its own specification over the shared variables.    *)
(***************************************************************************)
EXTENDS Integers, Sequences, FiniteSets, TLC

VARIABLES
    pendingRequests,  \* RequestBatcher.pendingRequests: key -> promise id (0: no entry)
    promises,         \* the promises batch() has created, by id: key, state, outcome, fn
    callers,          \* the calls of batch(), one per caller: position, key, handle, observed outcome
    producerCalls,    \* per promise id: how many times its requestFn was invoked
    parse,            \* one call of parseAggregatedResponse: its arguments and its result
    gen,              \* one call of generateAggregatedCommits: position, attempts, prompt, outcome
    aiCache,          \* the PersistentAICache: memoryCache (key -> entry) and stats
    cacheFiles,       \* the cache directory: per key, its cache file
    now,              \* Date.now(), in ms
    cacheCalls,       \* the calls made on the cache and the events on its files, in order
    keyCalls,         \* the calls of generateKey: the set given and the keys returned
    validationCall,   \* one call of validateCommitMessageFormat: its message and its result
    timeoutCall,      \* one call of calculateDynamicTimeout: its options and its result
    fallbackCall,     \* one call of generateFallbackMessage: its diff and its message
    retryCall,        \* one call of handleWithRetry: position, attempts, invocations, outcome
    lru,              \* an LRUCache: its Map in insertion order, maxSize, and the use of its keys
    tracker,          \* a ProgressTracker: total, current, isComplete, and the last call made
    commitx           \* one call of CommitX.commit: options, position, the git index, the commits

batcherVars == <<pendingRequests, promises, callers, producerCalls>>

cacheVars == <<aiCache, cacheFiles, now, cacheCalls>>

toolVars == <<fallbackCall, retryCall, lru, tracker, commitx>>

vars == <<pendingRequests, promises, callers, producerCalls, parse, gen,
          aiCache, cacheFiles, now, cacheCalls, keyCalls, validationCall, timeoutCall,
          fallbackCall, retryCall, lru, tracker, commitx>>

\* Every variable of the components modelled before the helpers of toolVars.
coreVars == <<pendingRequests, promises, callers, producerCalls, parse, gen,
              aiCache, cacheFiles, now, cacheCalls, keyCalls, validationCall, timeoutCall>>

None == [none |-> TRUE]

----------------------------------------------------------------------------
(* RequestBatcher                                                          *)

MaxCallers == 3
MaxPromises == 4

Keys == {"k1", "k2"}
Callers == 1..MaxCallers
PromiseIds == 1..MaxPromises

\* What a requestFn can settle with: a value, or a thrown error.
Outcomes == {[ok |-> TRUE, val |-> "r1"], [ok |-> TRUE, val |-> "r2"],
             [ok |-> FALSE, val |-> "e1"]}

IdleCaller == [pc |-> "idle", key |-> "k1", handle |-> 0, seen |-> None,
               window |-> 0, stale |-> FALSE]

Settled(p) == promises[p].state \in {"fulfilled", "rejected"}

\* Number of settlements seen so far for key k: the window a batch() call falls in.
SettledCount(k) == Cardinality({p \in 1..Len(promises) : promises[p].key = k /\ Settled(p)})

InitBatcher ==
    /\ pendingRequests = [k \in Keys |-> 0]
    /\ promises = <<>>
    /\ callers = [c \in Callers |-> IdleCaller]
    /\ producerCalls = [p \in PromiseIds |-> 0]

\* The handle batch() returns for key k, and whether this call registers a new promise.
BatchLookupNoDedup(k) == 0

BatchLookup(k) == pendingRequests[k]

\* batch(key, requestFn): return the pending promise for key when there is one;
\* otherwise create a promise, arm its timer and register it under key.
Batch(c, k, fn) ==
    /\ callers[c].pc = "idle"
    /\ LET existing == BatchLookup(k) IN
       IF existing # 0
       THEN /\ callers' = [callers EXCEPT ![c] =
                             [pc |-> "awaiting", key |-> k, handle |-> existing,
                              seen |-> None, window |-> SettledCount(k),
                              stale |-> Settled(existing)]]
            /\ UNCHANGED <<pendingRequests, promises>>
       ELSE /\ Len(promises) < MaxPromises
            /\ promises' = Append(promises,
                             [key |-> k, state |-> "timer", outcome |-> None, fn |-> fn,
                              cleared |-> FALSE])
            /\ pendingRequests' = [pendingRequests EXCEPT ![k] = Len(promises) + 1]
            /\ callers' = [callers EXCEPT ![c] =
                             [pc |-> "awaiting", key |-> k, handle |-> Len(promises) + 1,
                              seen |-> None, window |-> SettledCount(k),
                              stale |-> FALSE]]
    /\ UNCHANGED producerCalls

\* The setTimeout callback of promise p starts: requestFn() is invoked.
TimerFire(p) ==
    /\ p \in 1..Len(promises)
    /\ promises[p].state = "timer"
    /\ promises' = [promises EXCEPT ![p].state = "running"]
    /\ producerCalls' = [producerCalls EXCEPT ![p] = @ + 1]
    /\ UNCHANGED <<pendingRequests, callers>>

\* The pending table after the settlement of a promise registered under key k.
EvictKeepEntry(k) == pendingRequests

Evict(k) == [pendingRequests EXCEPT ![k] = 0]

\* requestFn() of promise p settles with outcome o: the key is deleted from the
\* table, then the promise is resolved or rejected.
Settle(p, o) ==
    /\ p \in 1..Len(promises)
    /\ promises[p].state = "running"
    /\ pendingRequests' = Evict(promises[p].key)
    /\ promises' = [promises EXCEPT ![p].state = IF o.ok THEN "fulfilled" ELSE "rejected",
                                    ![p].outcome = o]
    /\ UNCHANGED <<callers, producerCalls>>

\* A caller awaiting a handle observes its settlement.
Observe(c) ==
    /\ callers[c].pc = "awaiting"
    /\ Settled(callers[c].handle)
    /\ callers' = [callers EXCEPT ![c].pc = "observed",
                                  ![c].seen = promises[callers[c].handle].outcome]
    /\ UNCHANGED <<pendingRequests, promises, producerCalls>>

\* The pending table after clear().
ClearNothing(table) == table

ClearEntries(table) == [k \in DOMAIN table |-> 0]

\* clear(): the pending table is emptied. The timers armed by batch() and the
\* promises handed to callers are not touched; cleared records which promises
\* were registered when clear() ran.
Clear ==
    /\ pendingRequests' = ClearEntries(pendingRequests)
    /\ promises' = [p \in 1..Len(promises) |->
                      IF pendingRequests[promises[p].key] = p
                      THEN [promises[p] EXCEPT !.cleared = TRUE]
                      ELSE promises[p]]
    /\ UNCHANGED <<callers, producerCalls>>

BatcherStep ==
    \/ \E c \in Callers, k \in Keys : Batch(c, k, c)
    \/ \E p \in PromiseIds : TimerFire(p)
    \/ \E p \in PromiseIds, o \in Outcomes : Settle(p, o)
    \/ \E c \in Callers : Observe(c)

----------------------------------------------------------------------------
(* RequestBatcher: properties                                              *)

Invoked(p) == promises[p].state # "timer"

\* Two batch() calls fall in the same window of a key when both name the key and
\* no operation of that key settled between them.
SameWindow(c1, c2) ==
    /\ callers[c1].pc # "idle" /\ callers[c2].pc # "idle"
    /\ callers[c1].key = callers[c2].key
    /\ callers[c1].window = callers[c2].window

\* C8: batch() calls with the same key that are all issued before the first of
\* them settles share one handle, the producer behind that handle is invoked
\* exactly once, and all of them observe the same result or the same failure.
C8_DedupCorrectness ==
    /\ \A c1, c2 \in Callers :
          SameWindow(c1, c2) =>
             /\ callers[c1].handle = callers[c2].handle
             /\ (callers[c1].pc = "observed" /\ callers[c2].pc = "observed"
                   => callers[c1].seen = callers[c2].seen)
    /\ \A p \in 1..Len(promises) :
          /\ producerCalls[p] <= 1
          /\ Settled(p) => producerCalls[p] = 1
    /\ \A c \in Callers :
          callers[c].pc = "observed" => callers[c].seen = promises[callers[c].handle].outcome

\* Every caller called batch() with one key before anything settled, and all have
\* observed the one settlement.
C8_Witness ==
    /\ \A c \in Callers :
          callers[c].pc = "observed" /\ callers[c].key = "k1" /\ callers[c].window = 0
    /\ producerCalls[callers[1].handle] = 1
    /\ Len(promises) = 1

\* C9: for every key at most one producer invocation is in flight (invoked and
\* not yet settled).
C9_OneInFlightPerKey ==
    \A k \in Keys :
       Cardinality({p \in 1..Len(promises) :
                       promises[p].key = k /\ promises[p].state = "running"}) <= 1

\* A second operation of a key is in flight after a first one of that key settled,
\* with two callers sharing it.
C9_Witness ==
    \E p, q \in 1..Len(promises) :
       /\ p < q /\ promises[p].key = promises[q].key
       /\ Settled(p) /\ promises[q].state = "running"
       /\ Cardinality({c \in Callers : callers[c].pc = "awaiting" /\ callers[c].handle = q}) >= 2

\* C10: a settled operation is no longer in the pending table, and no batch()
\* call is ever handed a handle that had already settled: the call after a
\* settlement registers a fresh operation.
C10_EvictedOnSettlement ==
    /\ \A p \in 1..Len(promises) : Settled(p) => pendingRequests[promises[p].key] # p
    /\ \A c \in Callers : ~callers[c].stale

\* After a success and after a failure alike, a later batch() call with the same
\* key got a fresh handle whose producer has been invoked.
C10_Witness ==
    \E p, q, r \in 1..Len(promises) :
       /\ p < q /\ q < r
       /\ promises[p].key = promises[q].key /\ promises[q].key = promises[r].key
       /\ promises[p].state = "fulfilled" /\ promises[q].state = "rejected"
       /\ producerCalls[r] = 1
       /\ \E c \in Callers : callers[c].handle = r /\ callers[c].window = 2

----------------------------------------------------------------------------
(* Strings: a string is the sequence of its characters                     *)

LetterPairs ==
    { <<"a", "A">>, <<"b", "B">>, <<"c", "C">>, <<"d", "D">>, <<"e", "E">>, <<"f",
      "F">>, <<"g", "G">>, <<"h", "H">>, <<"i", "I">>, <<"j", "J">>, <<"k", "K">>,
      <<"l", "L">>, <<"m", "M">>, <<"n", "N">>, <<"o", "O">>, <<"p", "P">>, <<"q",
      "Q">>, <<"r", "R">>, <<"s", "S">>, <<"t", "T">>, <<"u", "U">>, <<"v", "V">>,
      <<"w", "W">>, <<"x", "X">>, <<"y", "Y">>, <<"z", "Z">> }

IsLower(ch) == \E pr \in LetterPairs : pr[1] = ch
IsUpper(ch) == \E pr \in LetterPairs : pr[2] = ch
IsLetter(ch) == IsLower(ch) \/ IsUpper(ch)
IsSpace(ch) == ch \in {" ", "\t", "\n"}

toLowerCaseChar(ch) == IF IsUpper(ch) THEN (CHOOSE pr \in LetterPairs : pr[2] = ch)[1] ELSE ch
toUpperCaseChar(ch) == IF IsLower(ch) THEN (CHOOSE pr \in LetterPairs : pr[1] = ch)[2] ELSE ch

toLowerCase(s) == [i \in 1..Len(s) |-> toLowerCaseChar(s[i])]

startsWith(s, prefix) ==
    /\ Len(prefix) <= Len(s)
    /\ \A i \in 1..Len(prefix) : s[i] = prefix[i]

\* s.slice(n): s without its first n characters.
slice(s, n) == IF n >= Len(s) THEN <<>> ELSE SubSeq(s, n + 1, Len(s))

\* String.prototype.trim
trim(s) ==
    LET nonSpace == {i \in 1..Len(s) : ~IsSpace(s[i])} IN
    IF nonSpace = {} THEN <<>>
    ELSE SubSeq(s, CHOOSE i \in nonSpace : \A j \in nonSpace : i <= j,
                   CHOOSE i \in nonSpace : \A j \in nonSpace : i >= j)

\* Length of the run of characters satisfying a class at the start of s.
LetterRun(s) ==
    IF \A i \in 1..Len(s) : IsLetter(s[i]) THEN Len(s)
    ELSE (CHOOSE i \in 1..Len(s) : ~IsLetter(s[i]) /\ \A j \in 1..(i - 1) : IsLetter(s[j])) - 1

SpaceRun(s) ==
    IF \A i \in 1..Len(s) : IsSpace(s[i]) THEN Len(s)
    ELSE (CHOOSE i \in 1..Len(s) : ~IsSpace(s[i]) /\ \A j \in 1..(i - 1) : IsSpace(s[j])) - 1

\* Length of the match of \([^)]*\) at the start of s, 0 when there is none.
ScopeMatch(s) ==
    IF Len(s) >= 2 /\ s[1] = "(" /\ \E j \in 2..Len(s) : s[j] = ")"
    THEN CHOOSE j \in 2..Len(s) : s[j] = ")" /\ \A k \in 2..(j - 1) : s[k] # ")"
    ELSE 0

----------------------------------------------------------------------------
(* COMMIT_MESSAGE_PATTERNS and validateCommitMessageFormat                 *)

AVOID_PREFIXES ==
    { <<"f", "e", "a", "t", ":">>,
      <<"f", "i", "x", ":">>,
      <<"c", "h", "o", "r", "e", ":">>,
      <<"r", "e", "f", "a", "c", "t", "o", "r", ":">>,
      <<"t", "e", "s", "t", ":">>,
      <<"d", "o", "c", "s", ":">>,
      <<"s", "t", "y", "l", "e", ":">>,
      <<"p", "e", "r", "f", ":">>,
      <<"c", "i", ":">>,
      <<"b", "u", "i", "l", "d", ":">>,
      <<"r", "e", "v", "e", "r", "t", ":">> }

\* /^[a-z]+\([^)]*\):/i, the last of CONVENTIONAL_COMMIT_PATTERNS: every other
\* pattern of the list is an instance of it.
CONVENTIONAL_COMMIT_PATTERNS(s) ==
    LET n == LetterRun(s)
        m == ScopeMatch(slice(s, n))
    IN  /\ n >= 1
        /\ m >= 2
        /\ Len(s) >= n + m + 1
        /\ s[n + m + 1] = ":"

StripNothing(s) == s

\* trimmedMessage.replace(/^[a-z]+(\([^)]*\))?:\s*/i, '')
StripConventionalPrefix(s) ==
    LET n == LetterRun(s)
        m == ScopeMatch(slice(s, n))
        withScope == n >= 1 /\ m >= 2 /\ Len(s) >= n + m + 1 /\ s[n + m + 1] = ":"
        bare == n >= 1 /\ Len(s) >= n + 1 /\ s[n + 1] = ":"
        k == IF withScope THEN n + m + 1 ELSE n + 1
    IN  IF withScope \/ bare
        THEN slice(s, k + SpaceRun(slice(s, k)))
        ELSE s

MinCorrectedLength == 10

PlainMessage ==
    <<"U", "p", "d", "a", "t", "e", "d", " ", "p", "a", "r", "s", "e", "r", " ",
      "l", "o", "g", "i", "c">>

InvalidMessage == [isValid |-> FALSE, hasCorrection |-> FALSE, correctedMessage |-> <<>>]
ValidMessage == [isValid |-> TRUE, hasCorrection |-> FALSE, correctedMessage |-> <<>>]

validateCommitMessageFormat(message) ==
    IF message = <<>> THEN InvalidMessage
    ELSE
      LET trimmedMessage == trim(message) IN
      IF \E prefix \in AVOID_PREFIXES :
            startsWith(toLowerCase(trimmedMessage), toLowerCase(prefix))
      THEN InvalidMessage
      ELSE IF CONVENTIONAL_COMMIT_PATTERNS(trimmedMessage)
      THEN LET corrected == StripConventionalPrefix(trimmedMessage) IN
           IF corrected # <<>> /\ Len(corrected) > MinCorrectedLength
           THEN [isValid |-> TRUE, hasCorrection |-> TRUE,
                 correctedMessage |-> <<toUpperCaseChar(corrected[1])>> \o slice(corrected, 1)]
           ELSE InvalidMessage
      ELSE ValidMessage

\* The messages validateCommitMessageFormat is called with: a word, a scope in
\* parentheses, a colon, whitespace and a remainder, whose lengths lie on both
\* sides of MinCorrectedLength; and messages without a scope.
MessageWords == { <<"f", "e", "a", "t">>, <<"F", "i", "x">>, <<"x">> }

MessageScopes == { <<"(", "a", "u", "t", "h", ")">>, <<"(", ")">>, <<"(", "a", " ", "b", ")">> }

MessageGaps == { <<>>, <<" ">>, <<" ", "\t">> }

RemainderText ==
    <<"d", "d", "e", "d", "O", "A", "u", "t", "h", "2", "s", "u", "p", "p", "o", "r", "t">>

MessageRemainders ==
    {<<>>}
    \cup {<<first>> \o SubSeq(RemainderText, 1, n - 1) :
             first \in {"a", "A", "2"},
             n \in {1, MinCorrectedLength - 1, MinCorrectedLength,
                    MinCorrectedLength + 1, MinCorrectedLength + 2}}

NoParts == [word |-> <<>>, scope |-> <<>>, gap |-> <<>>, remainder |-> <<>>]

ValidationInputs ==
    {[parts |-> [word |-> w, scope |-> sc, gap |-> g, remainder |-> r],
      message |-> pad \o w \o sc \o <<":">> \o g \o r \o pad] :
        w \in MessageWords, sc \in MessageScopes, g \in MessageGaps,
        r \in MessageRemainders, pad \in {<<>>, <<" ">>}}
    \cup {[parts |-> NoParts, message |-> m] :
            m \in {<<>>, PlainMessage, <<"f", "i", "x", ":", " ", "t", "y", "p", "o">>,
                   <<"x", ":", " ">> \o PlainMessage}}

InitValidation ==
    \E in \in ValidationInputs :
        validationCall = [parts |-> in.parts, message |-> in.message, done |-> FALSE,
                      result |-> InvalidMessage]

ValidationAtRest ==
    validationCall = [parts |-> NoParts, message |-> <<>>, done |-> TRUE,
                  result |-> InvalidMessage]

ValidateCall ==
    /\ ~validationCall.done
    /\ validationCall' = [validationCall EXCEPT
                         !.done = TRUE,
                         !.result = validateCommitMessageFormat(validationCall.message)]
    /\ UNCHANGED <<batcherVars, cacheVars, parse, gen, keyCalls, timeoutCall, toolVars>>

----------------------------------------------------------------------------
(* GitDiff, generateFallbackMessage                                        *)

\* file.split("/").pop(): the part of the path after its last "/".
fileNameOf(file) ==
    LET slashes == {i \in 1..Len(file) : file[i] = "/"} IN
    IF slashes = {} THEN file
    ELSE slice(file, CHOOSE i \in slashes : \A j \in slashes : i >= j)

FallbackShapeSwapped(diff) ==
    IF diff.isDeleted THEN "removed"
    ELSE IF diff.isNew THEN "created"
    ELSE IF diff.deletions > diff.additions * 2 THEN "added"
    ELSE IF diff.additions > diff.deletions * 2 THEN "cleaned"
    ELSE "updated"

\* The branch generateFallbackMessage takes for a diff.
FallbackShape(diff) ==
    IF diff.isNew THEN "created"
    ELSE IF diff.isDeleted THEN "removed"
    ELSE IF diff.additions > diff.deletions * 2 THEN "added"
    ELSE IF diff.deletions > diff.additions * 2 THEN "cleaned"
    ELSE "updated"

generateFallbackMessage(diff) ==
    LET fileName == fileNameOf(diff.file)
        shape == FallbackShape(diff)
    IN  CASE shape = "created" ->
               <<"C", "r", "e", "a", "t", "e", "d", " ", "n", "e", "w", " ">> \o fileName
               \o <<" ", "f", "i", "l", "e", " ", "w", "i", "t", "h", " ", "i", "n", "i", "t", "i", "a",
               "l", " ", "i", "m", "p", "l", "e", "m", "e", "n", "t", "a", "t", "i", "o", "n">>
          [] shape = "removed" ->
               <<"R", "e", "m", "o", "v", "e", "d", " ">> \o fileName
               \o <<" ", "f", "i", "l", "e", " ", "a", "s", " ", "i", "t", " ", "i", "s", " ", "n", "o", " ", "l", "o", "n", "g", "e", "r", " ", "n", "e", "e", "d", "e", "d">>
          [] shape = "added" ->
               <<"A", "d", "d", "e", "d", " ", "n", "e", "w", " ", "f", "u", "n", "c", "t", "i", "o",
               "n", "a", "l", "i", "t", "y", " ", "t", "o", " ">> \o fileName
               \o <<" ", "f", "i", "l", "e">>
          [] shape = "cleaned" ->
               <<"R", "e", "m", "o", "v", "e", "d", " ", "u", "n", "u", "s", "e", "d", " ", "c", "o",
               "d", "e", " ", "f", "r", "o", "m", " ">> \o fileName
               \o <<" ", "f", "i", "l", "e">>
          [] OTHER ->
               <<"U", "p", "d", "a", "t", "e", "d", " ">> \o fileName
               \o <<" ", "f", "i", "l", "e", " ", "w", "i", "t", "h", " ", "c", "o", "d", "e", " ", "i",
               "m", "p", "r", "o", "v", "e", "m", "e", "n", "t", "s">>

\* The change records the inputs are drawn from: one per branch of
\* generateFallbackMessage, with distinct paths, two of them sharing a file name.
DiffPool ==
    << [file |-> <<"a", ".", "t", "s">>, isNew |-> TRUE, isDeleted |-> FALSE,
        additions |-> 4, deletions |-> 0],
       [file |-> <<"s", "r", "c", "/", "a", ".", "t", "s">>,
        isNew |-> FALSE, isDeleted |-> FALSE, additions |-> 5, deletions |-> 1],
       [file |-> <<"b", ".", "t", "s">>, isNew |-> FALSE, isDeleted |-> TRUE,
        additions |-> 0, deletions |-> 3],
       [file |-> <<"c", ".", "t", "s">>, isNew |-> FALSE, isDeleted |-> FALSE,
        additions |-> 1, deletions |-> 4],
       [file |-> <<"d", ".", "t", "s">>, isNew |-> FALSE, isDeleted |-> FALSE,
        additions |-> 2, deletions |-> 2] >>

----------------------------------------------------------------------------
(* generateFallbackMessage on its own                                      *)

\* The change records the function is called with: paths with and without
\* directories, both flags, and counts on both sides of the factor 2.
MaxCount == 4

FallbackFiles == { <<"a", ".", "t", "s">>,
                   <<"s", "r", "c", "/", "a", ".", "t", "s">>,
                   <<"s", "r", "c", "/", "u", "t", "i", "l", "s", "/", "b", ".", "t", "s">>,
                   <<"R", "E", "A", "D", "M", "E">> }

FallbackDiffs ==
    [file : FallbackFiles, isNew : BOOLEAN, isDeleted : BOOLEAN,
     additions : 0..MaxCount, deletions : 0..MaxCount]

InitFallback ==
    \E diff \in FallbackDiffs :
        fallbackCall = [diff |-> diff, done |-> FALSE, message |-> <<>>]

FallbackAtRest ==
    fallbackCall = [diff |-> DiffPool[1], done |-> TRUE, message |-> <<>>]

FallbackCall ==
    /\ ~fallbackCall.done
    /\ fallbackCall' = [fallbackCall EXCEPT
                           !.done = TRUE,
                           !.message = generateFallbackMessage(fallbackCall.diff)]
    /\ UNCHANGED <<coreVars, retryCall, lru, tracker, commitx>>

----------------------------------------------------------------------------
(* EnhancedErrorHandler.handleWithRetry                                    *)

\* The values of maxRetries the method is called with, 0 included.
MaxMaxRetries == 3

\* What one invocation of operation() can end with.
OperationResults == {"r1", "r2"}
OperationErrors == {"e1", "e2", "e3"}

UnexpectedCompletion == "Unexpected retry loop completion"

\* errorCounts.get(operationKey) when the call starts: no entry (0), or the count
\* an earlier failed call left.
InitRetry ==
    \E maxRetries \in 0..MaxMaxRetries, left \in {0, 2} :
        retryCall = [pc |-> "loop", maxRetries |-> maxRetries, attempts |-> 0,
                     invoked |-> <<>>, errorCount |-> left,
                     returned |-> "none", thrown |-> "none"]

RetryAtRest ==
    retryCall = [pc |-> "returned", maxRetries |-> MaxMaxRetries, attempts |-> 0,
                 invoked |-> <<>>, errorCount |-> 0,
                 returned |-> "r1", thrown |-> "none"]

\* while (attempts < maxRetries)
LoopEnters(attempts, maxRetries) == attempts < maxRetries

\* One iteration of the loop: operation() is invoked and awaited. On success the
\* error count of the key is deleted and the result returned; on failure the
\* attempt is counted, and the error is rethrown when attempts >= maxRetries,
\* otherwise the retry waits attempts * 1000 ms.
RetryIteration ==
    /\ retryCall.pc = "loop"
    /\ LoopEnters(retryCall.attempts, retryCall.maxRetries)
    /\ \E outcome \in OperationResults \cup OperationErrors :
          LET invoked == Append(retryCall.invoked, outcome)
              attempts == retryCall.attempts + 1
          IN
          IF outcome \in OperationResults
          THEN retryCall' = [retryCall EXCEPT !.pc = "returned", !.invoked = invoked,
                                              !.errorCount = 0, !.returned = outcome]
          ELSE IF attempts >= retryCall.maxRetries
          THEN retryCall' = [retryCall EXCEPT !.pc = "threw", !.invoked = invoked,
                                              !.attempts = attempts,
                                              !.errorCount = attempts, !.thrown = outcome]
          ELSE retryCall' = [retryCall EXCEPT !.pc = "waiting", !.invoked = invoked,
                                              !.attempts = attempts,
                                              !.errorCount = attempts]
    /\ UNCHANGED <<coreVars, fallbackCall, lru, tracker, commitx>>

\* The timer of the retry delay fires.
RetryWake ==
    /\ retryCall.pc = "waiting"
    /\ retryCall' = [retryCall EXCEPT !.pc = "loop"]
    /\ UNCHANGED <<coreVars, fallbackCall, lru, tracker, commitx>>

\* The loop test fails: throw new Error('Unexpected retry loop completion').
RetryLoopExit ==
    /\ retryCall.pc = "loop"
    /\ ~LoopEnters(retryCall.attempts, retryCall.maxRetries)
    /\ retryCall' = [retryCall EXCEPT !.pc = "threw", !.thrown = UnexpectedCompletion]
    /\ UNCHANGED <<coreVars, fallbackCall, lru, tracker, commitx>>

----------------------------------------------------------------------------
(* LRUCache                                                                *)

MaxLruSize == 2
MaxLruOps == 4

LruKeys == {"a", "b", "c"}
LruValues == {"v1", "v2"}

\* The keys of the Map, in its iteration order, as a set.
KeysOf(order) == {order[i] : i \in 1..Len(order)}

\* this.cache.delete(key)
MapDelete(order, key) == SelectSeq(order, LAMBDA k : k # key)

NewestKey(order) == order[Len(order)]

\* this.cache.keys().next().value
FirstKey(order) == order[1]

\* The key of the cache whose last use, by a set or by a get that returned it, is
\* the oldest.
LeastRecentlyUsed(c) ==
    CHOOSE k \in KeysOf(c.order) : \A j \in KeysOf(c.order) : c.used[k] <= c.used[j]

\* What the call being made records of the cache it found.
LruCall(c, op, key) ==
    [op |-> op, key |-> key, before |-> KeysOf(c.order),
     lru |-> IF c.order = <<>> THEN "none" ELSE LeastRecentlyUsed(c)]

\* new LRUCache(maxSize)
InitLru ==
    \E maxSize \in 1..MaxLruSize :
        lru = [order |-> <<>>, value |-> [k \in LruKeys |-> "none"],
               used |-> [k \in LruKeys |-> 0], ops |-> 0, maxSize |-> maxSize,
               last |-> [op |-> "new", key |-> "none", before |-> {}, lru |-> "none"]]

LruAtRest ==
    lru = [order |-> <<>>, value |-> [k \in LruKeys |-> "none"],
           used |-> [k \in LruKeys |-> 0], ops |-> 0, maxSize |-> MaxLruSize,
           last |-> [op |-> "new", key |-> "none", before |-> {}, lru |-> "none"]]

\* get(key): a key that is present moves to the end of the Map.
LruGet ==
    /\ lru.ops < MaxLruOps
    /\ \E key \in LruKeys :
          lru' = IF key \in KeysOf(lru.order)
                 THEN [lru EXCEPT !.order = Append(MapDelete(lru.order, key), key),
                                  !.used[key] = lru.ops + 1, !.ops = @ + 1,
                                  !.last = LruCall(lru, "get", key)]
                 ELSE [lru EXCEPT !.ops = @ + 1, !.last = LruCall(lru, "get", key)]
    /\ UNCHANGED <<coreVars, fallbackCall, retryCall, tracker, commitx>>

\* set(key, value): a key that is present is deleted and put at the end; for a
\* new key the first key of the Map is deleted when size >= maxSize.
LruSet ==
    /\ lru.ops < MaxLruOps
    /\ \E key \in LruKeys, value \in LruValues :
          LET kept == IF key \in KeysOf(lru.order)
                      THEN MapDelete(lru.order, key)
                      ELSE IF Len(lru.order) >= lru.maxSize
                      THEN MapDelete(lru.order, FirstKey(lru.order))
                      ELSE lru.order
          IN lru' = [lru EXCEPT !.order = Append(kept, key),
                                !.value[key] = value,
                                !.used[key] = lru.ops + 1, !.ops = @ + 1,
                                !.last = LruCall(lru, "set", key)]
    /\ UNCHANGED <<coreVars, fallbackCall, retryCall, tracker, commitx>>

\* clear()
LruClear ==
    /\ lru.ops < MaxLruOps
    /\ lru' = [lru EXCEPT !.order = <<>>, !.ops = @ + 1,
                          !.last = LruCall(lru, "clear", "none")]
    /\ UNCHANGED <<coreVars, fallbackCall, retryCall, tracker, commitx>>

----------------------------------------------------------------------------
(* ProgressTracker                                                         *)

MaxTotal == 3
MaxTrackerCalls == 4

NoTrackerCall == [op |-> "new", arg |-> 0, wasComplete |-> FALSE]

\* new ProgressTracker({title, total}): current = 0, isComplete = false.
InitTracker ==
    \E total \in 0..MaxTotal :
        tracker = [total |-> total, current |-> 0, isComplete |-> FALSE,
                   calls |-> 0, last |-> NoTrackerCall]

TrackerAtRest ==
    tracker = [total |-> 0, current |-> 0, isComplete |-> TRUE,
               calls |-> MaxTrackerCalls, last |-> NoTrackerCall]

ReturnsNever(t) == FALSE

\* if (this.isComplete) return;
ReturnsEarly(t) == t.isComplete

\* complete(): current = total and isComplete = true, unless already complete.
\* render() changes no field.
complete(t) ==
    IF ReturnsEarly(t) THEN t
    ELSE [t EXCEPT !.current = t.total, !.isComplete = TRUE]

\* update(current): current = Math.min(current, total), then complete() when
\* current >= total; nothing when already complete.
update(t, current) ==
    IF ReturnsEarly(t) THEN t
    ELSE LET moved == [t EXCEPT !.current = IF current < t.total THEN current
                                                ELSE t.total] IN
         IF moved.current >= moved.total THEN complete(moved) ELSE moved

\* increment(amount): update(this.current + amount)
increment(t, amount) == update(t, t.current + amount)

Called(t, op, arg) ==
    [t EXCEPT !.calls = tracker.calls + 1,
              !.last = [op |-> op, arg |-> arg, wasComplete |-> tracker.isComplete]]

TrackerUpdate ==
    /\ tracker.calls < MaxTrackerCalls
    /\ \E current \in -1..(MaxTotal + 1) :
          tracker' = Called(update(tracker, current), "update", current)
    /\ UNCHANGED <<coreVars, fallbackCall, retryCall, lru, commitx>>

TrackerIncrement ==
    /\ tracker.calls < MaxTrackerCalls
    /\ \E amount \in {-1, 1, 2} :
          tracker' = Called(increment(tracker, amount), "increment", amount)
    /\ UNCHANGED <<coreVars, fallbackCall, retryCall, lru, commitx>>

TrackerComplete ==
    /\ tracker.calls < MaxTrackerCalls
    /\ tracker' = Called(complete(tracker), "complete", 0)
    /\ UNCHANGED <<coreVars, fallbackCall, retryCall, lru, commitx>>

----------------------------------------------------------------------------
(* CommitX.commit and the git repository it works on                       *)

\* gitService.stageFile(file) when it succeeds: the file is added to the index.
stageFile(index, file) == index \cup {file}

\* gitService.stageAll(): every change of the working tree is added to the index.
stageAll(index, unstaged) == index \cup unstaged

\* gitService.commit(message) when it succeeds: one commit of everything the
\* index holds. group is the group the call was made for, 0 for none.
GitCommit(index, message, group) == [message |-> message, files |-> index, group |-> group]

DryRunIgnored(options) == FALSE

\* if (options.dryRun)
DryRun(options) == options.dryRun

\* What generateAggregatedCommits returns for the files: a rejection, no group,
\* one group of all files, or one group per file.
Groupings(files) ==
    LET ordered == SelectSeq(<<"f1", "f2", "f3">>, LAMBDA f : f \in files) IN
    { [ok |-> FALSE, groups |-> <<>>],
      [ok |-> TRUE, groups |-> <<>>],
      [ok |-> TRUE, groups |-> <<[files |-> ordered, message |-> "m1"]>>],
      [ok |-> TRUE, groups |-> [i \in 1..Len(ordered) |->
                                   [files |-> <<ordered[i]>>, message |-> "m1"]]] }

\* The options of the call and the repository it is made in: whether it is a git
\* repository, the files of the index, and the files with unstaged changes.
InitCommit ==
    \E dryRun \in BOOLEAN, withMessage \in BOOLEAN, all \in BOOLEAN,
       isGitRepository \in BOOLEAN,
       index \in {{}, {"f3"}}, unstaged \in {{}, {"f1"}, {"f1", "f2"}} :
        commitx = [pc |-> "start",
                   options |-> [dryRun |-> dryRun, message |-> withMessage, all |-> all],
                   isGitRepository |-> isGitRepository,
                   index |-> index, unstaged |-> unstaged,
                   groups |-> <<>>, next |-> 1, processedCount |-> 0,
                   commitCalls |-> 0, commits |-> <<>>, outcome |-> "none"]

CommitAtRest ==
    commitx = [pc |-> "done",
               options |-> [dryRun |-> FALSE, message |-> FALSE, all |-> FALSE],
               isGitRepository |-> FALSE,
               index |-> {}, unstaged |-> {},
               groups |-> <<>>, next |-> 1, processedCount |-> 0,
               commitCalls |-> 0, commits |-> <<>>, outcome |-> "notRepository"]

Ended(c, outcome) == [c EXCEPT !.pc = "done", !.outcome = outcome]

\* commit(options) with options.message or options.all: commitTraditional.
\* staged: whether promptStageFiles was answered with yes; message: what the
\* commit message is ("" for none); committed: whether gitService.commit succeeds.
commitTraditional(c, shouldStage, message, committed) ==
    LET mustStage == c.index = {}
        staged == IF mustStage /\ c.unstaged # {} /\ shouldStage
                  THEN [c EXCEPT !.index = stageAll(c.index, c.unstaged), !.unstaged = {}]
                  ELSE c
    IN
    IF mustStage /\ c.unstaged # {} /\ ~shouldStage THEN Ended(c, "noFilesStaged")
    ELSE IF mustStage /\ c.unstaged = {} THEN Ended(c, "noChanges")
    ELSE IF message = "" THEN Ended(staged, "noCommitMessage")
    ELSE IF DryRun(c.options) THEN Ended(staged, "dryRun")
    ELSE IF committed
    THEN Ended([staged EXCEPT !.commitCalls = @ + 1, !.index = {},
                              !.commits = Append(@, GitCommit(staged.index, message, 0))],
               "committed")
    ELSE Ended([staged EXCEPT !.commitCalls = @ + 1], "error")

\* commit(options) up to the loop over the groups of commitFilesBatch: the
\* repository check, the choice of the workflow, the analysis of the unstaged
\* files and the call of generateAggregatedCommits.
CommitStart ==
    /\ commitx.pc = "start"
    /\ \/ /\ ~commitx.isGitRepository
          /\ commitx' = Ended(commitx, "notRepository")
       \/ /\ commitx.isGitRepository
          /\ commitx.options.message \/ commitx.options.all
          /\ \E shouldStage \in BOOLEAN, generated \in {"", "m1"}, committed \in BOOLEAN :
                commitx' = commitTraditional(commitx, shouldStage,
                              IF commitx.options.message THEN "given" ELSE generated,
                              committed)
       \/ /\ commitx.isGitRepository
          /\ ~(commitx.options.message \/ commitx.options.all)
          /\ IF commitx.unstaged = {}
             THEN commitx' = Ended(commitx, "noChanges")
             ELSE \E allDiffs \in SUBSET commitx.unstaged :
                     IF allDiffs = {}
                     THEN commitx' = Ended(commitx, "noValidFiles")
                     ELSE \E aggregatedResult \in Groupings(allDiffs) :
                             IF ~aggregatedResult.ok
                             THEN commitx' = Ended(commitx, "processingFailed")
                             ELSE IF aggregatedResult.groups = <<>>
                             THEN commitx' = Ended(commitx, "noGroups")
                             ELSE commitx' = [commitx EXCEPT
                                                !.pc = "groups",
                                                !.groups = aggregatedResult.groups]
    /\ UNCHANGED <<coreVars, fallbackCall, retryCall, lru, tracker>>

\* One pass of the loop over aggregatedResult.groups. With dryRun the group is
\* printed. Otherwise each file of the group is staged (stagedFiles: those for
\* which stageFile succeeded); with none staged the group is left; then
\* waitForLockRelease and gitService.commit(group.message) are awaited, and an
\* error of either is caught and logged.
CommitGroup ==
    /\ commitx.pc = "groups"
    /\ commitx.next <= Len(commitx.groups)
    /\ LET group == commitx.groups[commitx.next]
           files == {group.files[i] : i \in 1..Len(group.files)}
           c == [commitx EXCEPT !.next = @ + 1]
       IN
       IF DryRun(commitx.options)
       THEN commitx' = [c EXCEPT !.processedCount = @ + Len(group.files)]
       ELSE \E stagedFiles \in SUBSET files, end \in {"committed", "lockError", "commitError"} :
              LET index == UNION {stageFile(commitx.index, f) : f \in stagedFiles}
                              \cup commitx.index
                  staged == [c EXCEPT !.index = index, !.unstaged = @ \ stagedFiles]
              IN
              IF stagedFiles = {} THEN commitx' = c
              ELSE IF end = "lockError" THEN commitx' = staged
              ELSE IF end = "commitError"
              THEN commitx' = [staged EXCEPT !.commitCalls = @ + 1]
              ELSE commitx' = [staged EXCEPT
                                 !.commitCalls = @ + 1, !.index = {},
                                 !.commits = Append(@, GitCommit(index, group.message,
                                                                 commitx.next)),
                                 !.processedCount = @ + Cardinality(stagedFiles)]
    /\ UNCHANGED <<coreVars, fallbackCall, retryCall, lru, tracker>>

\* The loop is over: commitFilesBatch returns processedCount and commit() ends.
CommitReturn ==
    /\ commitx.pc = "groups"
    /\ commitx.next > Len(commitx.groups)
    /\ commitx' = Ended(commitx, "processed")
    /\ UNCHANGED <<coreVars, fallbackCall, retryCall, lru, tracker>>

----------------------------------------------------------------------------
(* parseAggregatedResponse                                                 *)

\* A JSON value read where the code expects a string: a string, nothing, or a
\* truthy value of another type (a number, an object).
Str(t) == [kind |-> "string", text |-> t]
Missing == [kind |-> "missing", text |-> <<>>]
NonString == [kind |-> "other", text |-> <<>>]

Truthy(v) == v.kind = "other" \/ (v.kind = "string" /\ v.text # <<>>)

\* Confidence in hundredths.
DefaultConfidence == 70
FallbackConfidence == 60

NoDescription == [present |-> FALSE, text |-> <<>>]

\* What parseAggregatedResponse does when it throws.
ParseFailure == [ok |-> FALSE, groups |-> <<>>]

Max(S) == CHOOSE x \in S : \A y \in S : x >= y

\* sanitizedToOriginal.get(name); <<>> stands for undefined. A later entry of the
\* same sanitized name overwrites an earlier one.
sanitizedToOriginal(diffs, sanitizedDiffs, name) ==
    LET idx == {i \in 1..Len(sanitizedDiffs) : sanitizedDiffs[i].file = name} IN
    IF idx = {} THEN <<>> ELSE diffs[Max(idx)].file

AlreadyUsedIgnored(originalFile, usedFiles) == FALSE

\* usedFiles.has(originalFile)
AlreadyUsed(originalFile, usedFiles) == originalFile \in usedFiles

\* The inner loop over group.files: the original paths a group claims.
RECURSIVE ResolveFiles(_, _, _, _, _)
ResolveFiles(names, diffs, sanitizedDiffs, usedFiles, validFiles) ==
    IF names = <<>> THEN [validFiles |-> validFiles, usedFiles |-> usedFiles]
    ELSE LET originalFile == sanitizedToOriginal(diffs, sanitizedDiffs, Head(names)) IN
         IF originalFile # <<>> /\ ~AlreadyUsed(originalFile, usedFiles)
         THEN ResolveFiles(Tail(names), diffs, sanitizedDiffs,
                           usedFiles \cup {originalFile}, Append(validFiles, originalFile))
         ELSE ResolveFiles(Tail(names), diffs, sanitizedDiffs, usedFiles, validFiles)

\* diffs.find(d => d.file === file)
FindDiff(diffs, file) ==
    diffs[CHOOSE i \in 1..Len(diffs) :
             diffs[i].file = file /\ \A j \in 1..(i - 1) : diffs[j].file # file]

\* The message a group is emitted with.
FinalMessage(group, diffs, validFiles) ==
    LET trimmedMessage == trim(group.message.text)
        validation == validateCommitMessageFormat(trimmedMessage)
    IN  IF validation.hasCorrection /\ validation.correctedMessage # <<>>
        THEN validation.correctedMessage
        ELSE IF ~validation.isValid
        THEN generateFallbackMessage(FindDiff(diffs, validFiles[1]))
        ELSE trimmedMessage

\* The loop over parsed.groups. acc: the groups pushed so far, usedFiles, and
\* whether a TypeError was thrown.
RECURSIVE ProcessGroups(_, _, _, _)
ProcessGroups(parsedGroups, diffs, sanitizedDiffs, acc) ==
    IF parsedGroups = <<>> \/ acc.threw THEN acc
    ELSE
      LET group == Head(parsedGroups)
          rest == Tail(parsedGroups)
      IN
      IF ~group.isObject
      THEN [acc EXCEPT !.threw = TRUE]
      ELSE IF ~group.filesIsArray \/ ~Truthy(group.message)
      THEN ProcessGroups(rest, diffs, sanitizedDiffs, acc)
      ELSE
        LET r == ResolveFiles(group.files, diffs, sanitizedDiffs, acc.usedFiles, <<>>) IN
        IF r.validFiles = <<>>
        THEN ProcessGroups(rest, diffs, sanitizedDiffs, acc)
        ELSE IF group.message.kind # "string" \/ group.description.kind = "other"
        THEN [acc EXCEPT !.threw = TRUE]
        ELSE ProcessGroups(rest, diffs, sanitizedDiffs,
               [groups |-> Append(acc.groups,
                   [files |-> r.validFiles,
                    message |-> FinalMessage(group, diffs, r.validFiles),
                    description |->
                       IF group.description.kind = "string"
                       THEN [present |-> TRUE, text |-> trim(group.description.text)]
                       ELSE NoDescription,
                    confidence |->
                       IF group.confidence.isNumber THEN group.confidence.val
                       ELSE DefaultConfidence]),
                usedFiles |-> r.usedFiles,
                threw |-> FALSE])

\* The singleton groups appended for the files no group claimed.
UnusedFileGroups(diffs, usedFiles) ==
    LET unusedFiles == SelectSeq(diffs, LAMBDA d : d.file \notin usedFiles) IN
    [i \in 1..Len(unusedFiles) |->
        [files |-> <<unusedFiles[i].file>>,
         message |-> generateFallbackMessage(unusedFiles[i]),
         description |-> NoDescription,
         confidence |-> FallbackConfidence]]

\* parseAggregatedResponse(response, diffs, sanitizedDiffs). The raw text is given
\* by what the extraction finds in it: no {...} at all ("nojson"), a {...} that
\* JSON.parse rejects ("badjson"), or an object ("object") with or without a
\* groups array.
parseAggregatedResponse(response, diffs, sanitizedDiffs) ==
    IF response.kind # "object" THEN ParseFailure
    ELSE IF ~response.groupsIsArray THEN ParseFailure
    ELSE
      LET acc == ProcessGroups(response.groups, diffs, sanitizedDiffs,
                               [groups |-> <<>>, usedFiles |-> {}, threw |-> FALSE])
      IN  IF acc.threw THEN ParseFailure
          ELSE [ok |-> TRUE, groups |-> acc.groups \o UnusedFileGroups(diffs, acc.usedFiles)]

----------------------------------------------------------------------------
(* Inputs of parseAggregatedResponse                                       *)

MaxFiles == 3
MaxGroups == 2
MaxGroupFiles == 2

SeqsUpTo(S, n) == UNION {[1..m -> S] : m \in 0..n}

Min(a, b) == IF a <= b THEN a ELSE b

\* The input file lists: the first n records of the pool.
DiffInputs == {SubSeq(DiffPool, 1, n) : n \in 1..Min(MaxFiles, Len(DiffPool))}

\* sanitizeGitDiff rewrites paths; two of its possible effects on the file name:
\* the path is kept, or its directories are dropped.
SanitizeVariants == {"keep", "basename"}

sanitizeGitDiff(diff, variant) ==
    [file |-> IF variant = "keep" THEN diff.file ELSE fileNameOf(diff.file)]

SanitizedOf(diffs, variant) == [i \in 1..Len(diffs) |-> sanitizeGitDiff(diffs[i], variant)]

UnknownName == <<"z", "z", ".", "t", "s">>

\* message, description and confidence of the groups a response may hold.
PayloadPlain ==
    [message |-> Str(<<"U", "p", "d", "a", "t", "e", "d", " ", "p", "a", "r", "s", "e", "r", " ", "l", "o", "g", "i", "c">>),
     description |-> Missing, confidence |-> [isNumber |-> TRUE, val |-> 95]]

PayloadScoped ==
    [message |-> Str(<<"f", "e", "a", "t", "(", "a", "u", "t", "h", ")", ":", " ", "A", "d", "d", "e", "d", " ", "O", "A", "u", "t", "h", "2", " ", "s", "u", "p", "p", "o", "r", "t", " ", "f", "o", "r", " ", "l", "o", "g", "i", "n">>),
     description |-> Str(<<" ", "a", "u", "t", "h", " ">>),
     confidence |-> [isNumber |-> FALSE, val |-> 0]]

PayloadPrefixed ==
    [message |-> Str(<<"f", "i", "x", ":", " ", "t", "y", "p", "o">>),
     description |-> Missing, confidence |-> [isNumber |-> TRUE, val |-> 80]]

PayloadNoMessage ==
    [message |-> Missing,
     description |-> Missing, confidence |-> [isNumber |-> TRUE, val |-> 90]]

PayloadNonString ==
    [message |-> NonString,
     description |-> Missing, confidence |-> [isNumber |-> TRUE, val |-> 90]]

\* Confidences outside [0, 1]: 1.5 and -0.1.
PayloadOverConfident ==
    [message |-> Str(PlainMessage),
     description |-> Missing, confidence |-> [isNumber |-> TRUE, val |-> 150]]

PayloadNegativeConfidence ==
    [message |-> Str(PlainMessage),
     description |-> Missing, confidence |-> [isNumber |-> TRUE, val |-> -10]]

\* A scoped prefix in front of a simple one: "feat(api): fix: handle empty input".
NestedMessage ==
    <<"f", "e", "a", "t", "(", "a", "p", "i", ")", ":", " ", "f", "i", "x",
      ":", " ", "h", "a", "n", "d", "l", "e", " ", "e", "m", "p", "t", "y",
      " ", "i", "n", "p", "u", "t">>

PayloadNested ==
    [message |-> Str(NestedMessage),
     description |-> Missing, confidence |-> [isNumber |-> TRUE, val |-> 90]]

Payloads ==
    {PayloadPlain, PayloadScoped, PayloadPrefixed,
     PayloadNoMessage, PayloadNonString,
     PayloadOverConfident, PayloadNegativeConfidence, PayloadNested}

NullGroup ==
    [isObject |-> FALSE, filesIsArray |-> FALSE, files |-> <<>>, message |-> Missing,
     description |-> Missing, confidence |-> [isNumber |-> FALSE, val |-> 0]]

GroupOf(files, p) ==
    [isObject |-> TRUE, filesIsArray |-> TRUE, files |-> files, message |-> p.message,
     description |-> p.description, confidence |-> p.confidence]

ResponseGroups(names) ==
    {GroupOf(fs, p) : fs \in SeqsUpTo(names, MaxGroupFiles), p \in Payloads}
    \cup {[isObject |-> TRUE, filesIsArray |-> FALSE, files |-> <<>>, message |-> p.message,
           description |-> p.description, confidence |-> p.confidence] : p \in Payloads}
    \cup {NullGroup}

NoJson == [kind |-> "nojson", groupsIsArray |-> FALSE, groups |-> <<>>]
BadJson == [kind |-> "badjson", groupsIsArray |-> FALSE, groups |-> <<>>]
NoGroups == [kind |-> "object", groupsIsArray |-> FALSE, groups |-> <<>>]

Responses(names) ==
    {NoJson, BadJson, NoGroups}
    \cup {[kind |-> "object", groupsIsArray |-> TRUE, groups |-> gs] :
             gs \in SeqsUpTo(ResponseGroups(names), MaxGroups)}

NamesOf(sanitizedDiffs) ==
    {sanitizedDiffs[i].file : i \in 1..Len(sanitizedDiffs)} \cup {UnknownName}

InitParse ==
    \E diffs \in DiffInputs, variant \in SanitizeVariants :
       \E response \in Responses(NamesOf(SanitizedOf(diffs, variant))) :
          parse = [diffs |-> diffs, sanitizedDiffs |-> SanitizedOf(diffs, variant),
                   response |-> response, done |-> FALSE, result |-> ParseFailure]

\* The call of parseAggregatedResponse on the drawn arguments.
ParseCall ==
    /\ ~parse.done
    /\ parse' = [parse EXCEPT
                   !.done = TRUE,
                   !.result = parseAggregatedResponse(parse.response, parse.diffs,
                                                      parse.sanitizedDiffs)]

----------------------------------------------------------------------------
(* PersistentAICache                                                       *)

\* PersistentAICache.maxAge: 7 days, in ms.
maxAge == 604800000

\* PersistentAICache.version, and the tag of an entry another build wrote.
version == "1.0"
ForeignVersion == "0.9"

\* set() compresses what it writes when JSON.stringify(suggestions) is longer.
CompressionThreshold == 1024

\* The suggestions field of a CacheEntry: a JSON array of suggestions, or (in a
\* compressed disk entry) the base64 string of the gzipped JSON text of one.
ArrayOf(items) == [kind |-> "array", items |-> items]
Base64String(items) == [kind |-> "string", items |-> items]

gzipAsync(items) == Base64String(items)
gunzipAsync(stored) == ArrayOf(stored.items)

\* get() returns null, or the suggestions of an entry.
NoEntry == [present |-> FALSE, suggestions |-> <<>>]
Found(suggestions) == [present |-> TRUE, suggestions |-> suggestions]

\* The cache file of a key: absent, or present with its modification time and
\* with content that JSON.parse reads as an entry or rejects.
NoFile == [exists |-> FALSE, parses |-> FALSE, entry |-> None, mtime |-> 0]
FileOf(entry, t) == [exists |-> TRUE, parses |-> TRUE, entry |-> entry, mtime |-> t]

\* The length of a confidence (hundredths) printed by JSON.stringify: 1, 0.7, 0.95.
NumberLength(c) == IF c % 100 = 0 THEN 1 ELSE IF c % 10 = 0 THEN 3 ELSE 4

\* The length of JSON.stringify of one suggestion; an undefined description is left out.
SuggestionLength(s) ==
    12 + Len(s.message) + 1
    + (IF s.description.present THEN 16 + Len(s.description.text) + 1 ELSE 0)
    + 14 + NumberLength(s.confidence) + 1

RECURSIVE SumOfLengths(_)
SumOfLengths(suggestions) ==
    IF suggestions = <<>> THEN 0
    ELSE SuggestionLength(Head(suggestions)) + 1 + SumOfLengths(Tail(suggestions))

\* JSON.stringify(suggestions).length
dataSize(suggestions) == IF suggestions = <<>> THEN 2 ELSE 1 + SumOfLengths(suggestions)

\* JSON.parse(JSON.stringify(entry)): the fields JSON keeps of each suggestion.
jsonRoundTrip(entry) ==
    [entry EXCEPT !.suggestions.items =
        [i \in 1..Len(entry.suggestions.items) |->
            [message |-> entry.suggestions.items[i].message,
             description |-> entry.suggestions.items[i].description,
             confidence |-> entry.suggestions.items[i].confidence]]]

isValidEntryAnyVersion(entry, t) ==
    /\ entry.timestamp > t - maxAge
    /\ entry.suggestions.kind = "array"
    /\ Len(entry.suggestions.items) > 0

isValidEntryAnyAge(entry, t) ==
    /\ entry.version = version
    /\ entry.suggestions.kind = "array"
    /\ Len(entry.suggestions.items) > 0

isValidEntry(entry, t) ==
    /\ entry.version = version
    /\ entry.timestamp > t - maxAge
    /\ entry.suggestions.kind = "array"
    /\ Len(entry.suggestions.items) > 0

\* The state a new PersistentAICache starts in.
NewCache(keys) ==
    [memoryCache |-> [k \in keys |-> None], stats |-> [hits |-> 0, misses |-> 0]]

Hit(cache) == [cache EXCEPT !.stats.hits = @ + 1]
Miss(cache) == [cache EXCEPT !.stats.misses = @ + 1]

GetReturn(result, cache, tier) == [result |-> result, cache |-> cache, tier |-> tier]

ReadFailureRethrown(cache) ==
    GetReturn([present |-> FALSE, suggestions |-> <<>>, thrown |-> TRUE], Miss(cache), "none")

\* stat, readFile or JSON.parse threw: the inner catch counts a miss and returns null.
ReadFailure(cache) == GetReturn(NoEntry, Miss(cache), "none")

\* A valid disk entry is stored in memoryCache, uncompressed, and returned.
Promote(cache, key, entry) ==
    Hit([cache EXCEPT !.memoryCache[key] = [entry EXCEPT !.compressed = FALSE]])

\* get(key) at time t with the cache files as they are: what it returns, the
\* cache afterwards, and the tier that served it.
get(cache, files, t, key) ==
    LET memoryEntry == cache.memoryCache[key]
        file == files[key]
    IN
    IF memoryEntry # None /\ isValidEntry(memoryEntry, t)
    THEN GetReturn(Found(memoryEntry.suggestions.items), Hit(cache), "memory")
    ELSE IF ~file.exists
    THEN ReadFailure(cache)
    ELSE IF t - file.mtime > maxAge
    THEN GetReturn(NoEntry, cache, "none")
    ELSE IF ~file.parses
    THEN ReadFailure(cache)
    ELSE IF ~isValidEntry(file.entry, t)
    THEN GetReturn(NoEntry, cache, "none")
    ELSE LET suggestions == IF file.entry.compressed /\ file.entry.suggestions.kind = "string"
                            THEN gunzipAsync(file.entry.suggestions)
                            ELSE file.entry.suggestions
             entry == [file.entry EXCEPT !.suggestions = suggestions]
         IN GetReturn(Found(suggestions.items), Promote(cache, key, entry), "disk")

\* How the durable write of a set() can end: written, JSON.stringify throwing,
\* writeFile failing with nothing written (missing directory, no permission),
\* or failing after part of the text was written.
SetFailures == {"none", "serialization", "write", "partial"}

SetReturn(cache, files) == [cache |-> cache, files |-> files]

SetMemory(cache, key, entry) == [cache EXCEPT !.memoryCache[key] = entry]

\* set(key, suggestions) at time t: the cache and the cache files afterwards.
set(cache, files, t, key, suggestions, failure) ==
    LET entry == [suggestions |-> ArrayOf(suggestions), timestamp |-> t,
                  version |-> version, compressed |-> FALSE]
        diskEntry == IF dataSize(suggestions) > CompressionThreshold
                     THEN [entry EXCEPT !.suggestions = gzipAsync(suggestions),
                                        !.compressed = TRUE]
                     ELSE entry
        stored == SetMemory(cache, key, entry)
    IN
    IF failure \in {"serialization", "write"}
    THEN SetReturn(stored, files)
    ELSE IF failure = "partial"
    THEN SetReturn(stored, [files EXCEPT ![key] = [FileOf(None, t) EXCEPT !.parses = FALSE]])
    ELSE SetReturn(stored, [files EXCEPT ![key] = FileOf(jsonRoundTrip(diskEntry), t)])

ClearKeepsEntries(cache) == cache

\* clear()
clear(cache) == [cache EXCEPT !.memoryCache = [k \in DOMAIN cache.memoryCache |-> None]]

\* getStats().size
size(cache) == Cardinality({k \in DOMAIN cache.memoryCache : cache.memoryCache[k] # None})

\* The suggestion lists set() is called with: none, one short suggestion, and one
\* whose JSON text is longer than the compression threshold.
ShortMessage == <<"U", "p", "d", "a", "t", "e", "d", " ", "p", "a", "r", "s", "e", "r", " ", "l", "o", "g", "i", "c">>

LongMessage == [i \in 1..(CompressionThreshold + 1) |-> "x"]

SuggestionLists ==
    [empty |-> <<>>,
     short |-> << [message |-> ShortMessage, description |-> NoDescription, confidence |-> 95] >>,
     long  |-> << [message |-> LongMessage, description |-> NoDescription, confidence |-> 70] >>]

\* The calls of set(): each list under one key with each way the write can end
\* for the short one, the empty one with a failed write, and a second key.
SetInputs ==
    {<<"k1", s, "none">> : s \in DOMAIN SuggestionLists}
    \cup {<<"k1", "short", f>> : f \in SetFailures}
    \cup {<<"k1", "empty", "write">>, <<"k2", "short", "none">>}

MaxCacheCalls == 4
MaxTicks == 1

\* One completed call, or one event on the cache files, at the time it happened.
Call(op, key, input, failure, result, tier) ==
    [op |-> op, key |-> key, input |-> input, failure |-> failure, result |-> result,
     tier |-> tier, at |-> now]

InitCache ==
    /\ aiCache = NewCache(Keys)
    /\ cacheFiles = [k \in Keys |-> NoFile]
    /\ now = 0
    /\ cacheCalls = <<>>

CacheSet ==
    /\ Len(cacheCalls) < MaxCacheCalls
    /\ \E in \in SetInputs :
          \E after \in {set(aiCache, cacheFiles, now, in[1], SuggestionLists[in[2]], in[3])} :
             /\ aiCache' = after.cache
             /\ cacheFiles' = after.files
             /\ cacheCalls' = Append(cacheCalls, Call("set", in[1], in[2], in[3], NoEntry, "none"))
    /\ UNCHANGED <<now, batcherVars, parse, keyCalls, validationCall, timeoutCall, gen, toolVars>>

CacheGet ==
    /\ Len(cacheCalls) < MaxCacheCalls
    /\ \E key \in Keys :
          \E got \in {get(aiCache, cacheFiles, now, key)} :
             /\ aiCache' = got.cache
             /\ cacheCalls' = Append(cacheCalls, Call("get", key, "none", "none", got.result, got.tier))
    /\ UNCHANGED <<cacheFiles, now, batcherVars, parse, keyCalls, validationCall, timeoutCall, gen, toolVars>>

CacheClear ==
    /\ Len(cacheCalls) < MaxCacheCalls
    /\ aiCache' = clear(aiCache)
    /\ cacheCalls' = Append(cacheCalls, Call("clear", "none", "none", "none", NoEntry, "none"))
    /\ UNCHANGED <<cacheFiles, now, batcherVars, parse, keyCalls, validationCall, timeoutCall, gen, toolVars>>

\* The process ends and a new one constructs its PersistentAICache.
CacheRestart ==
    /\ Len(cacheCalls) < MaxCacheCalls
    /\ aiCache' = NewCache(Keys)
    /\ cacheCalls' = Append(cacheCalls, Call("restart", "none", "none", "none", NoEntry, "none"))
    /\ UNCHANGED <<cacheFiles, now, batcherVars, parse, keyCalls, validationCall, timeoutCall, gen, toolVars>>

\* The version tag of a key's cache file is rewritten to another build's.
ForceVersion ==
    /\ Len(cacheCalls) < MaxCacheCalls
    /\ \E key \in Keys :
          /\ cacheFiles[key].exists /\ cacheFiles[key].parses
          /\ cacheFiles[key].entry.version = version
          /\ cacheFiles' = [cacheFiles EXCEPT ![key].entry.version = ForeignVersion]
          /\ cacheCalls' = Append(cacheCalls, Call("forceVersion", key, "none", "none", NoEntry, "none"))
    /\ UNCHANGED <<aiCache, now, batcherVars, parse, keyCalls, validationCall, timeoutCall, gen, toolVars>>

\* A key's cache file is damaged: its text no longer parses.
CorruptFile ==
    /\ Len(cacheCalls) < MaxCacheCalls
    /\ \E key \in Keys :
          /\ cacheFiles[key].exists /\ cacheFiles[key].parses
          /\ cacheFiles' = [cacheFiles EXCEPT ![key] = [@ EXCEPT !.parses = FALSE, !.entry = None]]
          /\ cacheCalls' = Append(cacheCalls, Call("corrupt", key, "none", "none", NoEntry, "none"))
    /\ UNCHANGED <<aiCache, now, batcherVars, parse, keyCalls, validationCall, timeoutCall, gen, toolVars>>

TicksUsed == (now \div (maxAge + 1)) + (now % (maxAge + 1))

\* Date.now() advances, by a millisecond or by more than the retention window.
Tick ==
    /\ TicksUsed < MaxTicks
    /\ \E d \in {1, maxAge + 1} : now' = now + d
    /\ UNCHANGED <<aiCache, cacheFiles, cacheCalls, batcherVars, parse, keyCalls, validationCall, timeoutCall, gen, toolVars>>

----------------------------------------------------------------------------
(* PersistentAICache.generateKey                                           *)

\* The UTF-16 code unit of each character the strings of the keys are made of.
CharCodes ==
    { <<"\t", 9>>, <<"\n", 10>>, <<" ", 32>>, <<"+", 43>>, <<"-", 45>>, <<".", 46>>,
      <<"/", 47>>, <<"0", 48>>, <<"1", 49>>, <<"2", 50>>, <<"3", 51>>, <<"4", 52>>,
      <<"5", 53>>, <<"6", 54>>, <<"7", 55>>, <<"8", 56>>, <<"9", 57>>, <<":", 58>>,
      <<"A", 65>>, <<"B", 66>>, <<"X", 88>>,
      <<"a", 97>>, <<"b", 98>>, <<"c", 99>>, <<"d", 100>>, <<"e", 101>>, <<"f", 102>>,
      <<"s", 115>>, <<"t", 116>>, <<"x", 120>>, <<"|", 124>> }

CharCodeOf ==
    [ch \in {pr[1] : pr \in CharCodes} |-> (CHOOSE pr \in CharCodes : pr[1] = ch)[2]]

charCodeAt(ch) == CharCodeOf[ch]

DecimalDigits == <<"0", "1", "2", "3", "4", "5", "6", "7", "8", "9">>

\* The decimal string a template literal gives a non-negative integer.
RECURSIVE toString(_)
toString(n) ==
    IF n < 10 THEN <<DecimalDigits[n + 1]>>
    ELSE toString(n \div 10) \o <<DecimalDigits[(n % 10) + 1]>>

\* ratio.toFixed(2) of ratio = additions / (additions + deletions), 0 when the sum
\* is 0: the nearest number of hundredths, the larger one on a tie.
ratioToFixed(additions, deletions) ==
    LET sum == additions + deletions
        hundredths == IF sum > 0 THEN (200 * additions + sum) \div (2 * sum) ELSE 0
    IN toString(hundredths \div 100) \o <<".">>
       \o toString((hundredths % 100) \div 10) \o toString(hundredths % 10)

\* content.replace(/\s+/g, " ")
RECURSIVE collapseWhitespace(_)
collapseWhitespace(content) ==
    IF content = <<>> THEN <<>>
    ELSE IF IsSpace(content[1])
         THEN <<" ">> \o collapseWhitespace(slice(content, SpaceRun(content)))
         ELSE <<content[1]>> \o collapseWhitespace(Tail(content))

\* s.substring(0, n)
substring(s, n) == SubSeq(s, 1, Min(n, Len(s)))

\* createHash("sha256").update(text).digest("hex") is the runtime's: a string of
\* DigestLength hexadecimal digits that is a function of the text alone.  The
\* digest is computed here from every character of the text and its position.
DigestLength == 64
HashBase == 131
HashModulus == 65521

HexDigits ==
    <<"0", "1", "2", "3", "4", "5", "6", "7", "8", "9", "a", "b", "c", "d", "e", "f">>

RECURSIVE Absorb(_)
Absorb(text) ==
    IF Len(text) = 0 THEN 1
    ELSE IF Len(text) = 1 THEN charCodeAt(text[1])
    ELSE LET half == Len(text) \div 2 IN
         (Absorb(SubSeq(text, 1, half)) * HashBase
          + Absorb(SubSeq(text, half + 1, Len(text))) + Len(text)) % HashModulus

sha256Hex(text) ==
    LET h == Absorb(text) IN
    [i \in 1..DigestLength |-> HexDigits[((((h + i) * i) % HashModulus) % 16) + 1]]

ContentHashLength == 8

hashContent(content) ==
    substring(sha256Hex(toLowerCase(trim(collapseWhitespace(content)))),
              ContentHashLength)

\* The order of Array.prototype.sort() without a comparator: strings compared
\* by their UTF-16 code units.
RECURSIVE Before(_, _)
Before(a, b) ==
    IF b = <<>> THEN FALSE
    ELSE IF a = <<>> THEN TRUE
    ELSE IF a[1] = b[1] THEN Before(Tail(a), Tail(b))
    ELSE charCodeAt(a[1]) < charCodeAt(b[1])

RemoveAt(items, m) == [i \in 1..(Len(items) - 1) |-> IF i < m THEN items[i] ELSE items[i + 1]]

sortSkipped(items) == items

RECURSIVE sort(_)
sort(items) ==
    IF items = <<>> THEN <<>>
    ELSE LET m == CHOOSE i \in 1..Len(items) :
                      /\ \A j \in 1..Len(items) : ~Before(items[j], items[i])
                      /\ \A j \in 1..(i - 1) : Before(items[j], items[i])
                                               \/ Before(items[i], items[j])
         IN <<items[m]>> \o sort(RemoveAt(items, m))

RECURSIVE join(_, _)
join(items, separator) ==
    IF items = <<>> THEN <<>>
    ELSE IF Len(items) = 1 THEN items[1]
    ELSE items[1] \o separator \o join(Tail(items), separator)

\* `${diff.file}:${diff.additions}:${diff.deletions}:${ratio.toFixed(2)}:${contentHash}`
keyComponent(diff) ==
    diff.file \o <<":">> \o toString(diff.additions) \o <<":">>
    \o toString(diff.deletions) \o <<":">>
    \o ratioToFixed(diff.additions, diff.deletions) \o <<":">>
    \o hashContent(diff.changes)

KeyLength == 16

generateKey(diffs) ==
    LET keyComponents == sort([i \in 1..Len(diffs) |-> keyComponent(diffs[i])]) IN
    substring(sha256Hex(join(keyComponents, <<"|">>)), KeyLength)

\* The change records the keys are generated from: paths that sort differently
\* by code unit than by letter, one path a prefix of another, counts with and
\* without a ratio, change text with upper case and runs of whitespace.
KeyDiffPool ==
    << [file |-> <<"b", ".", "t", "s">>, additions |-> 1, deletions |-> 0,
        changes |-> <<"+", "x">>],
       [file |-> <<"a", ".", "t", "s">>, additions |-> 1, deletions |-> 2,
        changes |-> <<"+", " ", "A", "\n", "-", " ", " ", "b">>],
       [file |-> <<"B", ".", "t", "s">>, additions |-> 0, deletions |-> 0,
        changes |-> <<>>],
       [file |-> <<"a", ".", "t", "s", "x">>, additions |-> 12, deletions |-> 3,
        changes |-> <<"\t", "-", "X", " ">>] >>

MaxKeyDiffs == 3
MaxKeyCalls == 3

\* The orderings of change record sets of at most MaxKeyDiffs records.
KeyInputs ==
    {diffs \in SeqsUpTo({KeyDiffPool[i] : i \in 1..Len(KeyDiffPool)}, MaxKeyDiffs) :
        \A i, j \in 1..Len(diffs) : i # j => diffs[i] # diffs[j]}

Reordered(diffs, perm) == [i \in 1..Len(diffs) |-> diffs[perm[i]]]

Whitespace == {" ", "\t", "\n"}

InsertAt(text, p, w) == SubSeq(text, 1, p) \o <<w>> \o SubSeq(text, p + 1, Len(text))

\* The texts that differ from a change text in one whitespace character: one
\* inserted, one removed, or one replaced by another.  An edit that lengthens,
\* shortens or retypes a run of whitespace, or adds or removes whitespace at an
\* end of the text, is told apart from one that puts whitespace between two
\* characters that had none ("split") or removes all of it ("fuse").
WhitespaceEdits(text) ==
    {[kind |-> IF p = 0 \/ p = Len(text) THEN "resize"
               ELSE IF IsSpace(text[p]) \/ IsSpace(text[p + 1]) THEN "resize"
               ELSE "split",
      text |-> InsertAt(text, p, w)] : p \in 0..Len(text), w \in Whitespace}
    \cup
    {[kind |-> IF p = 1 \/ p = Len(text) THEN "resize"
               ELSE IF IsSpace(text[p - 1]) \/ IsSpace(text[p + 1]) THEN "resize"
               ELSE "fuse",
      text |-> RemoveAt(text, p)] : p \in {q \in 1..Len(text) : IsSpace(text[q])}}
    \cup
    {[kind |-> "retype", text |-> [text EXCEPT ![pw[1]] = pw[2]]] :
        pw \in {qw \in (1..Len(text)) \X Whitespace :
                   IsSpace(text[qw[1]]) /\ text[qw[1]] # qw[2]}}

NoReformat == [kind |-> "none", key |-> <<>>]

InitKey ==
    \E diffs \in KeyInputs :
        keyCalls = [given |-> diffs, reordered |-> FALSE, keys |-> {}, calls |-> 0,
                    reformat |-> NoReformat]

KeyAtRest ==
    keyCalls = [given |-> <<>>, reordered |-> FALSE, keys |-> {}, calls |-> 0,
                reformat |-> NoReformat]

\* A call of generateKey with the records of the set in some order.
KeyCall ==
    /\ keyCalls.calls < MaxKeyCalls
    /\ \E perm \in Permutations(1..Len(keyCalls.given)) :
          \E diffs \in {Reordered(keyCalls.given, perm)} :
              keyCalls' = [keyCalls EXCEPT !.reordered = @ \/ diffs # keyCalls.given,
                                           !.keys = @ \cup {generateKey(diffs)},
                                           !.calls = @ + 1]
    /\ UNCHANGED <<batcherVars, cacheVars, parse, gen, validationCall, timeoutCall, toolVars>>

\* A call of generateKey with the records of the set, one of them with one
\* whitespace character of its change text changed; one such call per run.
KeyReformat ==
    /\ keyCalls.calls < MaxKeyCalls
    /\ keyCalls.reformat = NoReformat
    /\ \E i \in 1..Len(keyCalls.given) :
          \E edit \in WhitespaceEdits(keyCalls.given[i].changes) :
             \E diffs \in {[keyCalls.given EXCEPT ![i].changes = edit.text]} :
                keyCalls' = [keyCalls EXCEPT
                                !.reformat = [kind |-> edit.kind, key |-> generateKey(diffs)],
                                !.calls = @ + 1]
    /\ UNCHANGED <<batcherVars, cacheVars, parse, gen, validationCall, timeoutCall, toolVars>>

----------------------------------------------------------------------------
(* calculateDynamicTimeout, calculateAITimeout                             *)

baseTimeouts == [git |-> 15000, ai |-> 20000, file |-> 10000]

maxTimeouts == [git |-> 60000, ai |-> 90000, file |-> 30000]

\* Math.floor(fileSize / (1024 * 1024) * 1000), the whole megabytes apart so that
\* no product leaves the integers of the checker.
FileSizeTimeout(fileSize) ==
    (fileSize \div (1024 * 1024)) * 1000
    + ((fileSize % (1024 * 1024)) * 1000) \div (1024 * 1024)

\* Math.floor(diffSize / 1024 / 10) * 1000
DiffSizeTimeout(diffSize) == (diffSize \div (1024 * 10)) * 1000

ClampSkipped(timeout, operationType) == timeout

\* Math.max(Math.min(timeout, maxTimeouts[operationType]), baseTimeouts[operationType])
Clamp(timeout, operationType) ==
    Max({Min(timeout, maxTimeouts[operationType]), baseTimeouts[operationType]})

calculateDynamicTimeout(options) ==
    LET fileSizePart == IF options.fileSize > 0 THEN FileSizeTimeout(options.fileSize) ELSE 0
        diffSizePart == IF options.diffSize > 0 THEN DiffSizeTimeout(options.diffSize) ELSE 0
        changeTimeout == IF options.totalChanges > 0
                         THEN Min(options.totalChanges * 100, 30000) ELSE 0
        batchTimeout == IF options.fileCount > 1 THEN (options.fileCount - 1) * 2000 ELSE 0
    IN Clamp(baseTimeouts[options.operationType] + fileSizePart + diffSizePart
               + changeTimeout + batchTimeout,
             options.operationType)

calculateAITimeout(options) ==
    calculateDynamicTimeout([options EXCEPT !.operationType = "ai"])

\* The options the timeout is calculated for: sizes and counts at zero, at the
\* steps of each term, and beyond what the maximum allows.  A field left out of
\* the options has its default.
TimeoutOptions ==
    [fileSize : {0, 1, 1024 * 1024, 50 * 1024 * 1024},
     diffSize : {0, 10239, 10240, 750000, 2000000},
     totalChanges : {0, 1, 299, 300, 301, 100000},
     fileCount : {0, 1, 2, 36, 1000},
     operationType : {"git", "ai", "file"}]

InitTimeout ==
    \E options \in TimeoutOptions, via \in {"calculateDynamicTimeout", "calculateAITimeout"} :
        timeoutCall = [options |-> options, via |-> via, done |-> FALSE, result |-> 0]

TimeoutAtRest ==
    timeoutCall = [options |-> [fileSize |-> 0, diffSize |-> 0, totalChanges |-> 0,
                                fileCount |-> 1, operationType |-> "ai"],
                   via |-> "calculateAITimeout", done |-> TRUE, result |-> 0]

TimeoutCall ==
    /\ ~timeoutCall.done
    /\ timeoutCall' = [timeoutCall EXCEPT
                          !.done = TRUE,
                          !.result = IF timeoutCall.via = "calculateAITimeout"
                                     THEN calculateAITimeout(timeoutCall.options)
                                     ELSE calculateDynamicTimeout(timeoutCall.options)]
    /\ UNCHANGED <<batcherVars, cacheVars, parse, gen, keyCalls, validationCall, toolVars>>

----------------------------------------------------------------------------
(* validateAndFilterDiffs, the checks before a request                     *)

MaxDiffContentSize == 100000
maxApiRequestSize == 750000

\* GitDiffSchema.safeParse(diff).success: a path, and counts that are integers
\* and not negative.  Whether the counts are integers is carried by the change
\* record, next to their integer parts.
GitDiffSchemaOk(diff) ==
    /\ Len(diff.file) >= 1
    /\ diff.integerCounts
    /\ diff.additions >= 0
    /\ diff.deletions >= 0

\* DiffContentSchema.safeParse(diff.changes).success
DiffContentSchemaOk(diff) == diff.changesLen <= MaxDiffContentSize

\* shouldSkipFileForAI(diff.file, diff.changes).skip: the sanitizer's verdict is
\* carried by the change record.
shouldSkipFileForAI(diff) == diff.sensitive

validateAndFilterDiffsKeepsAll(diffs) == diffs

validateAndFilterDiffs(diffs) ==
    SelectSeq(diffs, LAMBDA diff :
        ~shouldSkipFileForAI(diff) /\ GitDiffSchemaOk(diff) /\ DiffContentSchemaOk(diff))

ValidationErrorNoSizeCheck(diffs, promptLength) ==
    IF diffs = <<>> THEN "No diffs provided for aggregated commits"
    ELSE IF validateAndFilterDiffs(diffs) = <<>> THEN "No valid diffs after filtering"
    ELSE "none"

\* The validation error an attempt throws before any request, "none" when it
\* throws none.
ValidationError(diffs, promptLength) ==
    IF diffs = <<>> THEN "No diffs provided for aggregated commits"
    ELSE IF validateAndFilterDiffs(diffs) = <<>> THEN "No valid diffs after filtering"
    ELSE IF promptLength > maxApiRequestSize THEN "Prompt size exceeds limit"
    ELSE "none"

----------------------------------------------------------------------------
(* executeAggregatedCommitGeneration, generateAggregatedCommits            *)

AI_RETRY_ATTEMPTS == 3

\* The key of the call's request in aiCache and in the batcher ("agg_" + generateKey).
aggregatedCacheKey == "k1"

\* The response returned on a cache hit: one group holding every validated file.
CachedResponse(validatedDiffs, cachedAggregated) ==
    [ok |-> TRUE,
     groups |-> << [files |-> [i \in 1..Len(validatedDiffs) |-> validatedDiffs[i].file],
                    message |-> IF cachedAggregated[1].message # <<>>
                                THEN cachedAggregated[1].message
                                ELSE generateFallbackMessage(validatedDiffs[1]),
                    description |-> cachedAggregated[1].description,
                    confidence |-> IF cachedAggregated[1].confidence # 0
                                   THEN cachedAggregated[1].confidence
                                   ELSE DefaultConfidence] >>]

\* The suggestions written to the cache for a parsed result.
cacheableSuggestions(groups) ==
    [i \in 1..Len(groups) |->
        [message |-> groups[i].message,
         description |-> groups[i].description,
         confidence |-> IF groups[i].confidence # 0 THEN groups[i].confidence
                        ELSE DefaultConfidence]]

\* withErrorHandling(fn, context): the outcome of fn reaches the caller, an error
\* keeping its class.
withErrorHandling(outcome) == outcome

\* withRetry: after a failed attempt, whether another attempt is made. Validation
\* errors are not retried; other errors are, until maxAttempts attempts are made.
withRetryContinues(error, attempt) ==
    error.class # "validation" /\ attempt < AI_RETRY_ATTEMPTS

NoError == [class |-> "none", message |-> "none"]
NoResult == [ok |-> FALSE, groups |-> <<>>]

Attempted(g, outcome, upstream) ==
    Append(g.log, [phase |-> g.phase, outcome |-> outcome, upstream |-> upstream])

CatchRethrows(g, error, outcome, upstream) ==
    [g EXCEPT !.pc = "failed", !.error = error, !.log = Attempted(g, outcome, upstream)]

\* The catch block of generateAggregatedCommits: withRetry has thrown, one attempt
\* with AI_FALLBACK_MODEL follows.
CatchStartsFallback(g, error, outcome, upstream) ==
    [g EXCEPT !.pc = "attempt", !.phase = "fallback", !.log = Attempted(g, outcome, upstream)]

FallbackFailureRetried(g, error, outcome, upstream) ==
    [g EXCEPT !.pc = "attempt", !.log = Attempted(g, outcome, upstream)]

\* The fallback attempt is returned as it is: its error is the call's error.
FallbackFailure(g, error, outcome, upstream) ==
    [g EXCEPT !.pc = "failed", !.error = error, !.log = Attempted(g, outcome, upstream)]

\* An attempt threw error.
AttemptFailed(g, error, outcome, upstream) ==
    IF g.phase = "primary"
    THEN IF withRetryContinues(error, g.attempt)
         THEN [g EXCEPT !.pc = "attempt", !.attempt = @ + 1,
                        !.log = Attempted(g, outcome, upstream)]
         ELSE CatchStartsFallback(g, error, outcome, upstream)
    ELSE FallbackFailure(g, error, outcome, upstream)

\* An attempt returned result: it is the call's result.
AttemptReturned(g, result, outcome, upstream) ==
    [g EXCEPT !.pc = "done", !.result = result, !.log = Attempted(g, outcome, upstream)]

ModelOf(g) == IF g.phase = "primary" THEN "primaryModel" ELSE "AI_FALLBACK_MODEL"

\* generateAggregatedCommits(diffs) is called.
GenCall ==
    /\ gen.pc = "idle"
    /\ gen' = [gen EXCEPT !.pc = "attempt", !.phase = "primary", !.attempt = 1]
    /\ UNCHANGED <<batcherVars, cacheVars, parse, keyCalls, validationCall, timeoutCall, toolVars>>

\* generateAggregatedCommits(diffs) is called a second time with the same diffs,
\* after a first call that returned what it computed from the upstream response
\* and whose aiCache.set has run to its end. first keeps what the first call
\* returned.
GenCallAgain ==
    /\ gen.pc = "done"
    /\ gen.first = NoResult
    /\ gen.result.ok
    /\ gen.log # <<>> /\ gen.log[Len(gen.log)].outcome = "ok"
    /\ ~gen.pendingSet.pending
    /\ gen' = [gen EXCEPT !.pc = "attempt", !.phase = "primary", !.attempt = 1,
                          !.started = [primary |-> 0, fallback |-> 0],
                          !.log = <<>>, !.result = NoResult, !.error = NoError,
                          !.first = gen.result]
    /\ UNCHANGED <<batcherVars, cacheVars, parse, keyCalls, validationCall, timeoutCall, toolVars>>

\* executeAggregatedCommitGeneration up to its await of requestBatcher.batch: the
\* checks, the cache lookup, and the registration of the request.
GenAttempt ==
    /\ gen.pc = "attempt"
    /\ LET verr == ValidationError(gen.diffs, gen.promptLength)
           validatedDiffs == validateAndFilterDiffs(gen.diffs)
           g == [gen EXCEPT !.started[gen.phase] = @ + 1]
       IN
       IF verr # "none"
       THEN /\ gen' = AttemptFailed(g, withErrorHandling([class |-> "validation", message |-> verr]),
                                    "validation", FALSE)
            /\ UNCHANGED <<batcherVars, aiCache>>
       ELSE \E cached \in {get(aiCache, cacheFiles, now, aggregatedCacheKey)} :
              /\ aiCache' = cached.cache
              /\ IF cached.result.present
                 THEN /\ gen' = AttemptReturned(g, CachedResponse(validatedDiffs,
                                                                  cached.result.suggestions),
                                                "cacheHit", FALSE)
                      /\ UNCHANGED batcherVars
                 ELSE /\ Batch(1, aggregatedCacheKey, ModelOf(gen))
                      /\ gen' = [g EXCEPT !.pc = "awaitBatch",
                                          !.prompted = validatedDiffs]
    /\ UNCHANGED <<cacheFiles, now, cacheCalls, parse, keyCalls, validationCall, timeoutCall, toolVars>>

\* What the generation endpoint can answer for a request listing these sanitized
\* files: text without JSON, one group of all files, one group naming the first
\* file twice, or two groups that both claim the first file.
GenResponses(sanitizedDiffs) ==
    LET names == [i \in 1..Len(sanitizedDiffs) |-> sanitizedDiffs[i].file] IN
    { NoJson,
      [kind |-> "object", groupsIsArray |-> TRUE,
       groups |-> <<GroupOf(names, PayloadPlain)>>],
      [kind |-> "object", groupsIsArray |-> TRUE,
       groups |-> <<GroupOf(<<names[1], names[1]>>, PayloadPrefixed)>>],
      [kind |-> "object", groupsIsArray |-> TRUE,
       groups |-> <<GroupOf(<<names[1]>>, PayloadScoped), GroupOf(names, PayloadPlain)>>] }

UpstreamError == [ok |-> FALSE, val |-> "e1"]

UpstreamOutcomes ==
    {UpstreamError}
    \cup {[ok |-> TRUE, val |-> r] :
            r \in GenResponses(SanitizedOf(validateAndFilterDiffs(gen.diffs), gen.variant))}

\* The generateContent call (under withTimeout) of a registered request settles.
GenUpstreamSettle ==
    /\ \E p \in 1..Len(promises) :
          /\ promises[p].state = "running"
          /\ \E o \in UpstreamOutcomes : Settle(p, o)
    /\ UNCHANGED <<gen, cacheVars, parse, keyCalls, validationCall, timeoutCall, toolVars>>

GenTimerFire ==
    /\ \E p \in PromiseIds : TimerFire(p)
    /\ UNCHANGED <<gen, cacheVars, parse, keyCalls, validationCall, timeoutCall, toolVars>>

NoPendingSet == [pending |-> FALSE, suggestions |-> <<>>]

\* void this.aiCache.set(aggregatedCacheKey, cacheableSuggestions): the call is
\* started when the result has groups, and its promise is dropped.
SetCalled(aggregatedResult) ==
    IF Len(aggregatedResult.groups) > 0
    THEN [pending |-> TRUE, suggestions |-> cacheableSuggestions(aggregatedResult.groups)]
    ELSE NoPendingSet

\* executeAggregatedCommitGeneration after its await: the rejection is thrown, or
\* the response is parsed and returned; aiCache.set is called for it and not awaited.
GenResume ==
    /\ gen.pc = "awaitBatch"
    /\ callers[1].pc = "awaiting"
    /\ Settled(callers[1].handle)
    /\ LET o == promises[callers[1].handle].outcome
           validatedDiffs == validateAndFilterDiffs(gen.diffs)
       IN
       IF ~o.ok
       THEN /\ gen' = AttemptFailed(gen, withErrorHandling([class |-> "upstream", message |-> o.val]),
                                    "upstreamError", TRUE)
       ELSE \E aggregatedResult \in
                 {parseAggregatedResponse(o.val, validatedDiffs,
                                          SanitizedOf(validatedDiffs, gen.variant))} :
              IF ~aggregatedResult.ok
              THEN /\ gen' = AttemptFailed(gen, withErrorHandling([class |-> "parse",
                                                message |-> "Failed to parse AI response"]),
                                           "parseError", TRUE)
              ELSE gen' = [AttemptReturned(gen, aggregatedResult, "ok", TRUE) EXCEPT
                             !.pendingSet = SetCalled(aggregatedResult)]
    /\ callers' = [callers EXCEPT ![1] = IdleCaller]
    /\ UNCHANGED <<pendingRequests, promises, producerCalls, cacheVars, parse, keyCalls, validationCall, timeoutCall, toolVars>>

\* The set() that executeAggregatedCommitGeneration started runs to its end: the
\* entry is put in memoryCache and the cache file is written, or the write fails.
GenCacheSet ==
    /\ gen.pendingSet.pending
    /\ \E failure \in SetFailures :
          \E after \in {set(aiCache, cacheFiles, now, aggregatedCacheKey,
                            gen.pendingSet.suggestions, failure)} :
             /\ aiCache' = after.cache
             /\ cacheFiles' = after.files
    /\ gen' = [gen EXCEPT !.pendingSet = NoPendingSet]
    /\ UNCHANGED <<batcherVars, now, cacheCalls, parse, keyCalls, validationCall, timeoutCall, toolVars>>

\* The change records generateAggregatedCommits is called with: pool records with
\* the sanitizer's verdict and the size of the change text.
GenDiff(i, sensitive, additions, changesLen) ==
    [file |-> DiffPool[i].file, isNew |-> DiffPool[i].isNew, isDeleted |-> DiffPool[i].isDeleted,
     additions |-> additions, deletions |-> DiffPool[i].deletions,
     integerCounts |-> TRUE, sensitive |-> sensitive, changesLen |-> changesLen]

Plain(i) == GenDiff(i, FALSE, DiffPool[i].additions, 40)

GenInputs ==
    { <<>>,
      <<Plain(1)>>,
      <<Plain(1), Plain(2)>>,
      <<GenDiff(1, TRUE, 4, 40)>>,
      <<Plain(2), GenDiff(3, TRUE, 0, 40)>>,
      <<GenDiff(1, FALSE, -1, 40), Plain(2)>>,
      <<Plain(1), [Plain(2) EXCEPT !.integerCounts = FALSE]>>,
      <<Plain(1), GenDiff(2, FALSE, 5, MaxDiffContentSize + 1)>> }

\* What an earlier call left in the cache under the key of this call: nothing, or
\* an entry in memoryCache and in its cache file.
CachedBefore ==
    { SetReturn(NewCache(Keys), [k \in Keys |-> NoFile]),
      set(NewCache(Keys), [k \in Keys |-> NoFile], 0, aggregatedCacheKey,
          SuggestionLists["short"], "none") }

InitGen ==
    /\ \E diffs \in GenInputs, variant \in SanitizeVariants,
          promptLength \in {2000, maxApiRequestSize + 1} :
          gen = [pc |-> "idle", phase |-> "primary", attempt |-> 1,
                 diffs |-> diffs, variant |-> variant, promptLength |-> promptLength,
                 started |-> [primary |-> 0, fallback |-> 0],
                 log |-> <<>>, result |-> NoResult, error |-> NoError,
                 pendingSet |-> NoPendingSet, prompted |-> <<>>,
                 first |-> NoResult]
    /\ \E before \in CachedBefore :
          /\ aiCache = before.cache
          /\ cacheFiles = before.files
    /\ now = 0
    /\ cacheCalls = <<>>

----------------------------------------------------------------------------
(* Specifications                                                          *)

ParseAtRest ==
    parse = [diffs |-> <<>>, sanitizedDiffs |-> <<>>, response |-> NoJson,
             done |-> TRUE, result |-> ParseFailure]

GenAtRest ==
    gen = [pc |-> "done", phase |-> "primary", attempt |-> 1,
              diffs |-> <<>>, variant |-> "keep", promptLength |-> 0,
              started |-> [primary |-> 0, fallback |-> 0],
              log |-> <<>>, result |-> NoResult, error |-> NoError,
              pendingSet |-> NoPendingSet, prompted |-> <<>>,
                 first |-> NoResult]

NextBatcher == BatcherStep /\ UNCHANGED <<parse, gen, cacheVars, keyCalls, validationCall, timeoutCall, toolVars>>

NextParse == ParseCall /\ UNCHANGED <<batcherVars, gen, cacheVars, keyCalls, validationCall, timeoutCall, toolVars>>

NextCache ==
    \/ CacheSet
    \/ CacheGet
    \/ CacheClear
    \/ CacheRestart
    \/ ForceVersion
    \/ CorruptFile
    \/ Tick

NextGen ==
    \/ GenCall
    \/ GenAttempt
    \/ GenTimerFire
    \/ GenUpstreamSettle
    \/ GenResume
    \/ GenCacheSet
    \/ GenCallAgain

ToolsAtRest ==
    FallbackAtRest /\ RetryAtRest /\ LruAtRest /\ TrackerAtRest /\ CommitAtRest

PureAtRest == ValidationAtRest /\ TimeoutAtRest /\ ToolsAtRest

NextKey ==
    \/ KeyCall
    \/ KeyReformat

InitBatcherSpec ==
    InitBatcher /\ ParseAtRest /\ GenAtRest /\ InitCache /\ KeyAtRest /\ PureAtRest

\* The batcher under concurrent callers.
SpecBatcher == InitBatcherSpec /\ [][NextBatcher]_vars

NextClear ==
    \/ BatcherStep /\ UNCHANGED <<parse, gen, cacheVars, keyCalls, validationCall, timeoutCall, toolVars>>
    \/ Clear /\ UNCHANGED <<parse, gen, cacheVars, keyCalls, validationCall, timeoutCall, toolVars>>

InitClearSpec ==
    InitBatcher /\ ParseAtRest /\ GenAtRest /\ InitCache /\ KeyAtRest /\ PureAtRest

\* The batcher under concurrent callers, with clear() called at any moment.
SpecClear == InitClearSpec /\ [][NextClear]_vars

InitParseSpec ==
    InitBatcher /\ InitParse /\ GenAtRest /\ InitCache /\ KeyAtRest /\ PureAtRest

\* parseAggregatedResponse on every drawn input.
SpecParse == InitParseSpec /\ [][NextParse]_vars

InitGenSpec ==
    InitBatcher /\ ParseAtRest /\ InitGen /\ KeyAtRest /\ PureAtRest

\* One call of generateAggregatedCommits, with its batcher and its cache.
SpecGen == InitGenSpec /\ [][NextGen]_vars

InitCacheSpec ==
    InitBatcher /\ ParseAtRest /\ GenAtRest /\ InitCache /\ KeyAtRest /\ PureAtRest

\* The cache under calls of get, set and clear, restarts, events on its files and
\* the passing of time.
SpecCache == InitCacheSpec /\ [][NextCache]_vars

InitKeySpec ==
    /\ InitBatcher /\ ParseAtRest /\ GenAtRest /\ InitCache /\ InitKey
    /\ ValidationAtRest /\ TimeoutAtRest /\ ToolsAtRest

\* generateKey on the orderings of every drawn set of change records.
SpecKey == InitKeySpec /\ [][NextKey]_vars

NextValidation == ValidateCall

InitValidationSpec ==
    /\ InitBatcher /\ ParseAtRest /\ GenAtRest /\ InitCache /\ KeyAtRest
    /\ InitValidation /\ TimeoutAtRest /\ ToolsAtRest

\* validateCommitMessageFormat on every drawn message.
SpecValidation == InitValidationSpec /\ [][NextValidation]_vars

NextTimeout == TimeoutCall

InitTimeoutSpec ==
    /\ InitBatcher /\ ParseAtRest /\ GenAtRest /\ InitCache /\ KeyAtRest
    /\ ValidationAtRest /\ InitTimeout /\ ToolsAtRest

\* calculateDynamicTimeout and calculateAITimeout on every drawn set of options.
SpecTimeout == InitTimeoutSpec /\ [][NextTimeout]_vars

\* Every component modelled before the helpers of toolVars, at rest.
CoreAtRest ==
    /\ InitBatcher /\ ParseAtRest /\ GenAtRest /\ InitCache /\ KeyAtRest
    /\ ValidationAtRest /\ TimeoutAtRest

NextFallback == FallbackCall

InitFallbackSpec ==
    CoreAtRest /\ InitFallback /\ RetryAtRest /\ LruAtRest /\ TrackerAtRest /\ CommitAtRest

\* generateFallbackMessage on every drawn change record.
SpecFallback == InitFallbackSpec /\ [][NextFallback]_vars

NextRetry ==
    \/ RetryIteration
    \/ RetryWake
    \/ RetryLoopExit

InitRetrySpec ==
    CoreAtRest /\ FallbackAtRest /\ InitRetry /\ LruAtRest /\ TrackerAtRest /\ CommitAtRest

\* One call of handleWithRetry with every course its operation can take.
SpecRetry == InitRetrySpec /\ [][NextRetry]_vars

NextLru ==
    \/ LruGet
    \/ LruSet
    \/ LruClear

InitLruSpec ==
    CoreAtRest /\ FallbackAtRest /\ RetryAtRest /\ InitLru /\ TrackerAtRest /\ CommitAtRest

\* An LRUCache under calls of get, set and clear.
SpecLru == InitLruSpec /\ [][NextLru]_vars

NextTracker ==
    \/ TrackerUpdate
    \/ TrackerIncrement
    \/ TrackerComplete

InitTrackerSpec ==
    CoreAtRest /\ FallbackAtRest /\ RetryAtRest /\ LruAtRest /\ InitTracker /\ CommitAtRest

\* A ProgressTracker under calls of update, increment and complete.
SpecTracker == InitTrackerSpec /\ [][NextTracker]_vars

NextCommit ==
    \/ CommitStart
    \/ CommitGroup
    \/ CommitReturn

InitCommitSpec ==
    CoreAtRest /\ FallbackAtRest /\ RetryAtRest /\ LruAtRest /\ TrackerAtRest /\ InitCommit

\* One call of CommitX.commit in every drawn repository.
SpecCommit == InitCommitSpec /\ [][NextCommit]_vars

----------------------------------------------------------------------------
(* parseAggregatedResponse: properties                                     *)

\* The positions <<g, i>> of the groups' file lists that hold file f.
Occurrences(groups, f) ==
    UNION {{<<g, i>> : i \in {j \in 1..Len(groups[g].files) : groups[g].files[j] = f}} :
             g \in 1..Len(groups)}

FilesOf(diffs) == {diffs[i].file : i \in 1..Len(diffs)}

GroupedFiles(groups) ==
    UNION {{groups[g].files[i] : i \in 1..Len(groups[g].files)} : g \in 1..Len(groups)}

\* The groups partition the files of diffs: every file once, nothing else.
Partitions(groups, diffs) ==
    /\ GroupedFiles(groups) = FilesOf(diffs)
    /\ \A f \in FilesOf(diffs) : Cardinality(Occurrences(groups, f)) = 1

\* One singleton group per input file, in input order, with the file's fallback message.
AllSingletonFallbacks(groups, diffs) ==
    /\ Len(groups) = Len(diffs)
    /\ \A i \in 1..Len(diffs) :
          /\ groups[i].files = <<diffs[i].file>>
          /\ groups[i].message = generateFallbackMessage(diffs[i])

IsParseFailureInput(response) == response.kind # "object" \/ ~response.groupsIsArray

\* C1: for every input file list and every response, the groups produced by
\* parseAggregatedResponse partition the input files.
C1_Coverage ==
    parse.done => parse.result.ok /\ Partitions(parse.result.groups, parse.diffs)

\* C2: when the text holds no JSON object, or the object has no groups array, the
\* output is one singleton fallback group per input file.
C2_ParseFailureTotalFallback ==
    (parse.done /\ IsParseFailureInput(parse.response))
       => parse.result.ok /\ AllSingletonFallbacks(parse.result.groups, parse.diffs)

----------------------------------------------------------------------------
(* generateAggregatedCommits: properties                                   *)

Terminal == gen.pc \in {"done", "failed"}

Attempts(phase) == {i \in 1..Len(gen.log) : gen.log[i].phase = phase}

FailedAttempt(i) == gen.log[i].outcome \in {"validation", "upstreamError", "parseError"}

\* The requestFn invocations made for a model.
UpstreamCalls(model) ==
    {p \in 1..Len(promises) : promises[p].fn = model /\ producerCalls[p] = 1}

ValidationPasses == ValidationError(gen.diffs, gen.promptLength) = "none"

\* C3: an attempt whose upstream call returned unparseable text is the last
\* attempt of the call, and the call returns a result.
C3_ParseErrorAbsorbed ==
    \A i \in 1..Len(gen.log) :
       gen.log[i].outcome = "parseError" =>
          /\ i = Len(gen.log)
          /\ gen.pc = "done"
          /\ gen.result.ok

\* C4: an attempt that fails with a validation error is the only attempt: no
\* retry and no fallback-model attempt follows, and the call fails with that error.
C4_ValidationTerminal ==
    \A i \in 1..Len(gen.log) :
       gen.log[i].outcome = "validation" =>
          /\ Len(gen.log) = 1
          /\ gen.started.fallback = 0
          /\ gen.pc = "failed"
          /\ gen.error.class = "validation"

\* C5: when every primary-model attempt fails upstream and the fallback-model
\* attempt succeeds, the call returns the fallback attempt's result after exactly
\* AI_RETRY_ATTEMPTS primary attempts and one fallback attempt.
C5_FallbackCascade ==
    (/\ Terminal
     /\ \A i \in Attempts("primary") : gen.log[i].outcome = "upstreamError"
     /\ \A i \in Attempts("fallback") : gen.log[i].outcome = "ok")
    => /\ gen.pc = "done"
       /\ gen.result.ok
       /\ gen.log[Len(gen.log)].phase = "fallback"
       /\ Cardinality(Attempts("primary")) = AI_RETRY_ATTEMPTS
       /\ Cardinality(Attempts("fallback")) = 1
       /\ Cardinality(UpstreamCalls("primaryModel")) = AI_RETRY_ATTEMPTS
       /\ Cardinality(UpstreamCalls("AI_FALLBACK_MODEL")) = 1

\* The call returned after AI_RETRY_ATTEMPTS upstream failures of the primary
\* model and a success of the fallback model.
C5_Witness ==
    /\ gen.pc = "done"
    /\ Len(gen.log) = AI_RETRY_ATTEMPTS + 1
    /\ \A i \in 1..AI_RETRY_ATTEMPTS :
          gen.log[i].phase = "primary" /\ gen.log[i].outcome = "upstreamError"
    /\ gen.log[AI_RETRY_ATTEMPTS + 1].phase = "fallback"
    /\ gen.log[AI_RETRY_ATTEMPTS + 1].outcome = "ok"

\* C6: the fallback model is attempted at most once, only when every primary
\* attempt made has completed and failed; a failed fallback attempt ends the call
\* with that attempt's error.
C6_SingleFallback ==
    /\ gen.started.fallback <= 1
    /\ Cardinality(UpstreamCalls("AI_FALLBACK_MODEL")) <= 1
    /\ (gen.started.fallback = 1 \/ gen.phase = "fallback") =>
          /\ gen.started.primary >= 1
          /\ Cardinality(Attempts("primary")) = gen.started.primary
          /\ \A i \in Attempts("primary") : FailedAttempt(i)
    /\ \A i \in Attempts("fallback") :
          FailedAttempt(i) =>
             /\ i = Len(gen.log)
             /\ gen.pc = "failed"
             /\ gen.error.class = (IF gen.log[i].outcome = "validation" THEN "validation"
                                   ELSE IF gen.log[i].outcome = "parseError" THEN "parse"
                                   ELSE "upstream")

\* The fallback attempt was made after the primary attempts failed, it failed
\* upstream too, and the call failed.
C6_Witness ==
    /\ gen.pc = "failed"
    /\ gen.started.fallback = 1
    /\ Len(gen.log) = AI_RETRY_ATTEMPTS + 1
    /\ gen.log[Len(gen.log)].phase = "fallback"
    /\ gen.log[Len(gen.log)].outcome = "upstreamError"
    /\ gen.error.class = "upstream"

StructurallyValid(result) ==
    /\ result.ok
    /\ Len(result.groups) >= 1
    /\ \A g \in 1..Len(result.groups) :
          /\ result.groups[g].files # <<>>
          /\ result.groups[g].message # <<>>

\* C7 as stated: when validation passes the call returns a valid response that
\* covers every input file, whatever the upstream calls do; it fails only when
\* validation fails, before any request.
C7_AlwaysValidResponse ==
    Terminal =>
       IF ValidationPasses
       THEN /\ gen.pc = "done"
            /\ StructurallyValid(gen.result)
            /\ GroupedFiles(gen.result.groups) = FilesOf(gen.diffs)
       ELSE /\ gen.pc = "failed"
            /\ \A i \in 1..Len(gen.log) : ~gen.log[i].upstream

\* C7 as amended: a call that returns gives a structurally valid response whose
\* groups partition the files that passed filtering and validation; when
\* validation passes the call fails only if the fallback attempt failed after
\* AI_RETRY_ATTEMPTS failed primary attempts, and it does fail when every one of
\* those attempts fails upstream; when validation fails the call fails with the
\* validation error and no request is made.
C7_ValidResponseOrAllFailed ==
    /\ gen.pc = "done" =>
          /\ ValidationPasses
          /\ StructurallyValid(gen.result)
          /\ Partitions(gen.result.groups, validateAndFilterDiffs(gen.diffs))
    /\ (gen.pc = "failed" /\ ValidationPasses) =>
          /\ Len(gen.log) = AI_RETRY_ATTEMPTS + 1
          /\ \A i \in 1..Len(gen.log) : FailedAttempt(i) /\ gen.log[i].upstream
          /\ gen.log[Len(gen.log)].phase = "fallback"
    /\ (/\ Terminal
        /\ ValidationPasses
        /\ \A i \in 1..Len(gen.log) : gen.log[i].outcome = "upstreamError") =>
          /\ gen.pc = "failed"
          /\ gen.error.class = "upstream"
    /\ (Terminal /\ ~ValidationPasses) =>
          /\ gen.pc = "failed"
          /\ gen.error.class = "validation"
          /\ \A i \in 1..Len(gen.log) : ~gen.log[i].upstream

\* The call returned the fallback model's groups for an input one file of which
\* was filtered out: the groups cover the remaining file only.
C7_Witness ==
    /\ gen.pc = "done"
    /\ gen.log[Len(gen.log)].phase = "fallback"
    /\ gen.log[Len(gen.log)].outcome = "ok"
    /\ Len(validateAndFilterDiffs(gen.diffs)) < Len(gen.diffs)
    /\ Partitions(gen.result.groups, validateAndFilterDiffs(gen.diffs))

----------------------------------------------------------------------------
(* PersistentAICache: properties                                           *)

NCalls == Len(cacheCalls)

LastCall == cacheCalls[NCalls]

IsSet(i, key) == cacheCalls[i].op = "set" /\ cacheCalls[i].key = key

IsGet(i, key) == cacheCalls[i].op = "get" /\ cacheCalls[i].key = key

\* The get at j comes before an entry created at i has reached maxAge.
WithinWindow(i, j) == cacheCalls[j].at - cacheCalls[i].at < maxAge

SetList(i) == SuggestionLists[cacheCalls[i].input]

\* C11: a get that directly follows a set of the same key, before the retention
\* window has passed, returns the list that was set.
C11_RoundTrip ==
    \A i \in 1..(NCalls - 1) : \A key \in Keys :
       (IsSet(i, key) /\ IsGet(i + 1, key) /\ WithinWindow(i, i + 1))
       => cacheCalls[i + 1].result = Found(SetList(i))

\* C12: after a set whose durable write completed, and then a clear() or a
\* restart, a get of the key within the retention window returns the list that
\* was set, whether the entry was written compressed or not.
C12_DurableSurvives ==
    \A i \in 1..(NCalls - 2) : \A key \in Keys :
       (/\ IsSet(i, key) /\ cacheCalls[i].failure = "none"
        /\ cacheCalls[i + 1].op \in {"clear", "restart"}
        /\ IsGet(i + 2, key) /\ WithinWindow(i, i + 2))
       => cacheCalls[i + 2].result = Found(SetList(i))

\* The cache file of key bears another build's version at call j: it was rewritten
\* by forceVersion and no set has written the file since.
ForcedAt(j, key) ==
    \E i \in 1..(j - 1) :
       /\ cacheCalls[i].op = "forceVersion" /\ cacheCalls[i].key = key
       /\ \A m \in (i + 1)..(j - 1) :
             ~(IsSet(m, key) /\ cacheCalls[m].failure \in {"none", "partial"})

\* The fast tier holds nothing under key at call j: it was emptied and neither a
\* set nor a promoting get of the key has run since.
EmptiedBefore(j, key) ==
    \E c \in 1..(j - 1) :
       /\ cacheCalls[c].op \in {"clear", "restart"}
       /\ \A m \in (c + 1)..(j - 1) :
             ~IsSet(m, key) /\ ~(IsGet(m, key) /\ cacheCalls[m].tier = "disk")

\* C13 as stated: a get that follows a set of the key and the forcing of the
\* stored entry's version to another value returns absent.
C13_ForcedVersionAbsent ==
    \A i \in 1..(NCalls - 2) : \A key \in Keys :
       (/\ IsSet(i, key)
        /\ cacheCalls[i + 1].op = "forceVersion" /\ cacheCalls[i + 1].key = key
        /\ IsGet(i + 2, key))
       => cacheCalls[i + 2].result = NoEntry

\* C13 as amended: get never returns suggestions read from a cache file whose
\* version differs from the expected one, and returns absent for such a file once
\* the fast tier no longer holds the key; while the fast tier still holds the
\* entry that set wrote, non-empty and within the window, get returns that list.
C13_MismatchedFileNeverServed ==
    \A j \in 1..NCalls : \A key \in Keys :
       (IsGet(j, key) /\ ForcedAt(j, key)) =>
          /\ cacheCalls[j].tier # "disk"
          /\ EmptiedBefore(j, key) => cacheCalls[j].result = NoEntry
          /\ (/\ j >= 3
              /\ IsSet(j - 2, key) /\ SetList(j - 2) # <<>>
              /\ cacheCalls[j - 1].op = "forceVersion"
              /\ WithinWindow(j - 2, j))
             => /\ cacheCalls[j].result = Found(SetList(j - 2))
                /\ cacheCalls[j].tier = "memory"

\* A set wrote the file, its version was forced, the fast tier was emptied, and
\* the get found the file fresh and well-formed but of the other version.
C13_Witness ==
    /\ NCalls >= 3
    /\ IsGet(NCalls, "k1")
    /\ cacheCalls[NCalls - 1].op \in {"clear", "restart"}
    /\ cacheCalls[NCalls - 2].op = "forceVersion" /\ cacheCalls[NCalls - 2].key = "k1"
    /\ LastCall.result = NoEntry
    /\ cacheFiles["k1"].exists /\ cacheFiles["k1"].parses
    /\ cacheFiles["k1"].entry.version = ForeignVersion
    /\ cacheFiles["k1"].entry.suggestions.kind = "array"
    /\ Len(cacheFiles["k1"].entry.suggestions.items) > 0
    /\ LastCall.at - cacheFiles["k1"].entry.timestamp < maxAge

\* The latest set of key before call j, 0 if there is none.
LatestSet(j, key) ==
    IF \E i \in 1..(j - 1) : IsSet(i, key)
    THEN CHOOSE i \in 1..(j - 1) :
            IsSet(i, key) /\ \A m \in (i + 1)..(j - 1) : ~IsSet(m, key)
    ELSE 0

\* C14: a get whose key was last set more than maxAge before it returns absent,
\* whether the entry is still in memoryCache or only in its cache file; and the
\* entry a get has returned (it is in memoryCache when get returns) was created at
\* most maxAge before the get.
C14_ExpiredAbsent ==
    /\ \A j \in 1..NCalls : \A key \in Keys :
          (/\ IsGet(j, key)
           /\ LatestSet(j, key) # 0
           /\ cacheCalls[j].at - cacheCalls[LatestSet(j, key)].at > maxAge)
          => cacheCalls[j].result = NoEntry
    /\ (NCalls >= 1 /\ LastCall.op = "get" /\ LastCall.result.present) =>
          /\ aiCache.memoryCache[LastCall.key] # None
          /\ aiCache.memoryCache[LastCall.key].suggestions.items = LastCall.result.suggestions
          /\ LastCall.at - aiCache.memoryCache[LastCall.key].timestamp <= maxAge

\* A get returned absent for a key whose entry, older than maxAge, is still in
\* memoryCache and in a well-formed cache file of the expected version.
C14_Witness ==
    /\ NCalls >= 2
    /\ IsGet(NCalls, "k1")
    /\ LastCall.result = NoEntry
    /\ aiCache.memoryCache["k1"] # None
    /\ Len(aiCache.memoryCache["k1"].suggestions.items) > 0
    /\ LastCall.at - aiCache.memoryCache["k1"].timestamp > maxAge
    /\ cacheFiles["k1"].exists /\ cacheFiles["k1"].parses
    /\ cacheFiles["k1"].entry.version = version
    /\ cacheFiles["k1"].entry.suggestions.kind = "array"

\* C15: after a set whose durable write failed, memoryCache holds the entry with
\* the list that was set, and a get of the key that directly follows, within the
\* window, returns that list.
C15_FailedWriteStillCached ==
    \A i \in 1..NCalls : \A key \in Keys :
       (IsSet(i, key) /\ cacheCalls[i].failure # "none") =>
          /\ i = NCalls =>
                /\ aiCache.memoryCache[key] # None
                /\ aiCache.memoryCache[key].suggestions = ArrayOf(SetList(i))
          /\ (i < NCalls /\ IsGet(i + 1, key) /\ WithinWindow(i, i + 1))
             => cacheCalls[i + 1].result = Found(SetList(i))

\* A step that is a call of get.
GetStep == Len(cacheCalls') = NCalls + 1 /\ cacheCalls'[NCalls + 1].op = "get"

\* C16: a get that is not served from memoryCache and whose cache file is missing
\* or does not parse returns absent (it does not throw), and a get that returns
\* no suggestions leaves memoryCache as it was.
C16_ReadFailureAbsent ==
    [][ GetStep =>
          /\ (/\ cacheCalls'[NCalls + 1].tier # "memory"
              /\ \/ ~cacheFiles[cacheCalls'[NCalls + 1].key].exists
                 \/ ~cacheFiles[cacheCalls'[NCalls + 1].key].parses)
             => cacheCalls'[NCalls + 1].result = NoEntry
          /\ ~cacheCalls'[NCalls + 1].result.present
             => aiCache'.memoryCache = aiCache.memoryCache ]_vars

\* A get found the cache file of its key damaged while memoryCache held an entry
\* of another key, and returned absent.
C16_Witness ==
    /\ NCalls >= 1
    /\ IsGet(NCalls, "k1")
    /\ LastCall.result = NoEntry
    /\ cacheFiles["k1"].exists /\ ~cacheFiles["k1"].parses
    /\ aiCache.memoryCache["k1"] = None
    /\ aiCache.memoryCache["k2"] # None

\* C17: when a get misses memoryCache and the cache file of its key holds a
\* non-empty list written by a completed set within the window, compressed or
\* not, memoryCache holds the key with that list when get returns, and a get of
\* the key that directly follows is served from memoryCache.
C17_DurableHitPromotes ==
    \A i \in 1..(NCalls - 2) : \A key \in Keys :
       (/\ IsSet(i, key) /\ cacheCalls[i].failure = "none" /\ SetList(i) # <<>>
        /\ cacheCalls[i + 1].op \in {"clear", "restart"}
        /\ IsGet(i + 2, key) /\ WithinWindow(i, i + 2))
       => /\ i + 2 = NCalls =>
                /\ aiCache.memoryCache[key] # None
                /\ aiCache.memoryCache[key].suggestions = ArrayOf(SetList(i))
          /\ (i + 2 < NCalls /\ IsGet(i + 3, key) /\ WithinWindow(i, i + 3))
             => cacheCalls[i + 3].tier = "memory"

\* A step that is a call of clear().
ClearStep == Len(cacheCalls') = NCalls + 1 /\ cacheCalls'[NCalls + 1].op = "clear"

\* C18: clear() leaves memoryCache empty, so that the reported size is 0, and
\* leaves every cache file as it was.
C18_ClearKeepsDurable ==
    [][ ClearStep => /\ size(aiCache') = 0
                     /\ cacheFiles' = cacheFiles ]_vars

\* clear() was called with two keys in memoryCache and in cache files: the size
\* is 0 and both files are still there.
C18_Witness ==
    /\ NCalls >= 3
    /\ LastCall.op = "clear"
    /\ IsSet(1, "k1") /\ IsSet(2, "k2")
    /\ size(aiCache) = 0
    /\ cacheFiles["k1"].exists /\ cacheFiles["k1"].parses
    /\ cacheFiles["k2"].exists /\ cacheFiles["k2"].parses

----------------------------------------------------------------------------
(* generateAggregatedCommits and the cache: properties                     *)

\* C19: when generateAggregatedCommits has returned a result obtained from
\* upstream with at least one group, the cache holds an entry under the key of
\* the request, in memoryCache or in its cache file.
C19_CachedBeforeReturn ==
    (/\ gen.pc = "done"
     /\ gen.log[Len(gen.log)].outcome = "ok"
     /\ Len(gen.result.groups) > 0)
    => \/ aiCache.memoryCache[aggregatedCacheKey] # None
       \/ cacheFiles[aggregatedCacheKey].exists

----------------------------------------------------------------------------
(* PersistentAICache.generateKey: properties                               *)

\* C20: for every set of change records and every ordering of it, generateKey
\* returns the same key: the calls made with orderings of one set have returned
\* at most one key.
C20_KeyStableUnderPermutation == Cardinality(keyCalls.keys) <= 1

\* Two or more calls on orderings of a set of several records, one of them with
\* the records in another order than given, so that the sort had components to
\* reorder.
C20_Witness ==
    /\ keyCalls.calls >= 2
    /\ keyCalls.reformat = NoReformat
    /\ Len(keyCalls.given) >= 2
    /\ keyCalls.reordered
    /\ Cardinality(keyCalls.keys) = 1

\* C21: changing only whitespace in the change text of a record, with the paths
\* and the counts unchanged, leaves the key unchanged: the key returned for the
\* reformatted set is the key of the set as given.
C21_KeyStableUnderWhitespace ==
    keyCalls.reformat.kind # "none"
    => keyCalls.reformat.key = generateKey(keyCalls.given)

----------------------------------------------------------------------------
(* executeAggregatedCommitGeneration: what reaches the generation endpoint *)

\* C22: no upstream generate call is made with a prompt longer than
\* maxApiRequestSize: while the prompt of the call is longer, no request is
\* registered and no attempt has called upstream, and the call ends failed with
\* a validation error.
C22_NoOversizedRequest ==
    gen.promptLength > maxApiRequestSize
    => /\ promises = <<>>
       /\ \A p \in PromiseIds : producerCalls[p] = 0
       /\ \A i \in 1..Len(gen.log) : ~gen.log[i].upstream
       /\ gen.pc # "done"
       /\ gen.pc = "failed" => gen.error.class = "validation"

\* A call with accepted records and an oversized prompt has ended: both models
\* were tried and the error is the size error.
C22_Witness ==
    /\ gen.promptLength > maxApiRequestSize
    /\ validateAndFilterDiffs(gen.diffs) # <<>>
    /\ gen.pc = "failed"
    /\ gen.error.message = "Prompt size exceeds limit"
    /\ gen.started["primary"] >= 1
    /\ gen.started["fallback"] >= 1

\* C23: only accepted change records reach the generation endpoint: every record
\* of a prompt submitted upstream was not flagged by shouldSkipFileForAI, has
\* integer counts that are not negative, and has change text of at most
\* MaxDiffContentSize characters; a registered request has such a prompt.
C23_OnlyAcceptedRecordsSubmitted ==
    /\ \A i \in 1..Len(gen.prompted) :
          /\ ~shouldSkipFileForAI(gen.prompted[i])
          /\ gen.prompted[i].integerCounts
          /\ gen.prompted[i].additions >= 0
          /\ gen.prompted[i].deletions >= 0
          /\ gen.prompted[i].changesLen <= MaxDiffContentSize
    /\ promises # <<>> => gen.prompted # <<>>

\* A request was submitted for a call some of whose records were not accepted.
C23_Witness ==
    /\ promises # <<>>
    /\ \E p \in 1..Len(promises) : producerCalls[p] = 1
    /\ gen.prompted # <<>>
    /\ Len(gen.prompted) < Len(gen.diffs)

----------------------------------------------------------------------------
(* validateCommitMessageFormat: properties                                 *)

Scoped == validationCall.parts.word # <<>>

\* C24: a message of the form word(scope): remainder is corrected to the
\* remainder with its first letter in upper case when the remainder has more
\* than MinCorrectedLength characters, and is rejected otherwise.
C24_ScopedPrefixCorrection ==
    (validationCall.done /\ Scoped)
    => IF Len(validationCall.parts.remainder) > MinCorrectedLength
       THEN validationCall.result =
               [isValid |-> TRUE, hasCorrection |-> TRUE,
                correctedMessage |->
                   <<toUpperCaseChar(validationCall.parts.remainder[1])>>
                   \o Tail(validationCall.parts.remainder)]
       ELSE validationCall.result = InvalidMessage

\* A scoped message whose remainder starts with a lower-case letter, follows
\* whitespace and is one character over the limit was corrected.
C24_Witness ==
    /\ validationCall.done
    /\ Scoped
    /\ Len(validationCall.parts.remainder) = MinCorrectedLength + 1
    /\ validationCall.parts.remainder[1] = "a"
    /\ validationCall.parts.gap # <<>>
    /\ validationCall.result.hasCorrection
    /\ validationCall.result.correctedMessage[1] = "A"

----------------------------------------------------------------------------
(* calculateDynamicTimeout: properties                                     *)

\* C30: the timeout is clamped: calculateDynamicTimeout returns a value within
\* [base, max] of its operation type, and calculateAITimeout a value within
\* [20000, 90000] ms, for all sizes and counts that are not negative.
C30_TimeoutClamped ==
    timeoutCall.done
    => /\ timeoutCall.via = "calculateDynamicTimeout"
          => /\ timeoutCall.result >= baseTimeouts[timeoutCall.options.operationType]
             /\ timeoutCall.result <= maxTimeouts[timeoutCall.options.operationType]
       /\ timeoutCall.via = "calculateAITimeout"
          => timeoutCall.result >= 20000 /\ timeoutCall.result <= 90000

\* calculateAITimeout was called for a request whose terms add up to more than
\* the maximum, and returned the maximum.
C30_Witness ==
    /\ timeoutCall.done
    /\ timeoutCall.via = "calculateAITimeout"
    /\ timeoutCall.options.diffSize = 750000
    /\ timeoutCall.options.fileCount = 36
    /\ timeoutCall.result = 90000

----------------------------------------------------------------------------
(* parseAggregatedResponse: the groups of a returned result                *)

\* The groups of the response that the loop processes: objects with a files
\* array and a message.
Processed(j) ==
    /\ parse.response.groups[j].isObject
    /\ parse.response.groups[j].filesIsArray
    /\ Truthy(parse.response.groups[j].message)

\* The input file a name of the response stands for, <<>> when it stands for none.
OriginalOf(name) == sanitizedToOriginal(parse.diffs, parse.sanitizedDiffs, name)

Names(j, f) ==
    \E k \in 1..Len(parse.response.groups[j].files) :
        OriginalOf(parse.response.groups[j].files[k]) = f

\* The earliest processed group of the response that names f, 0 when none does.
FirstClaim(f) ==
    LET claimants == {j \in 1..Len(parse.response.groups) : Processed(j) /\ Names(j, f)} IN
    IF claimants = {} THEN 0
    ELSE CHOOSE j \in claimants : \A k \in claimants : j <= k

ClaimedBy(j) == {f \in FilesOf(parse.diffs) : FirstClaim(f) = j}

\* The groups of the response that keep at least one file, and the i-th of them.
Claiming == {j \in 1..Len(parse.response.groups) : ClaimedBy(j) # {}}

NthClaiming(i) == CHOOSE j \in Claiming : Cardinality({k \in Claiming : k < j}) = i - 1

\* The first file, in the order the group lists its names, that group j keeps.
FirstResolved(j) ==
    LET files == parse.response.groups[j].files
        kept == {k \in 1..Len(files) : OriginalOf(files[k]) \in ClaimedBy(j)}
    IN OriginalOf(files[CHOOSE k \in kept : \A l \in kept : k <= l])

\* The message of group j is a string that validateCommitMessageFormat rejects.
RejectedOutright(j) ==
    /\ parse.response.groups[j].message.kind = "string"
    /\ ~validateCommitMessageFormat(trim(parse.response.groups[j].message.text)).isValid

FileSet(group) == {group.files[k] : k \in 1..Len(group.files)}

\* The result holds the i-th claiming group of the response as its i-th group,
\* with exactly the files that group was first to name.
EmittedAt(i) ==
    /\ parse.result.ok
    /\ i <= Len(parse.result.groups)
    /\ FileSet(parse.result.groups[i]) = ClaimedBy(NthClaiming(i))
    /\ Len(parse.result.groups[i].files) = Cardinality(ClaimedBy(NthClaiming(i)))

\* C25: a group whose message is rejected outright is not discarded: it is
\* emitted with its resolved files and with the fallback message of its first
\* resolved file.
C25_RejectedMessageReplaced ==
    parse.done
    => \A i \in 1..Cardinality(Claiming) :
          RejectedOutright(NthClaiming(i))
          => /\ EmittedAt(i)
             /\ parse.result.groups[i].files[1] = FirstResolved(NthClaiming(i))
             /\ parse.result.groups[i].message =
                   generateFallbackMessage(
                      FindDiff(parse.diffs, FirstResolved(NthClaiming(i))))

\* C26: first-claim-wins: a file that groups of the response name is placed in
\* the earliest group that names it and in no other group; names that stand for
\* no input file are placed nowhere.
C26_FirstClaimWins ==
    parse.done
    => /\ \A i \in 1..Cardinality(Claiming) : EmittedAt(i)
       /\ Claiming # {}
          => /\ parse.result.ok
             /\ \A f \in FilesOf(parse.diffs) :
                   Cardinality(Occurrences(parse.result.groups, f)) = 1
             /\ GroupedFiles(parse.result.groups) = FilesOf(parse.diffs)

\* C27: every input file that no emitted group of the response claims is
\* appended after the groups of the response, as a singleton group with the
\* fallback message of the file and the confidence FallbackConfidence.
C27_UnclaimedFilesAppended ==
    parse.done
    => LET unclaimed == SelectSeq(parse.diffs, LAMBDA d : FirstClaim(d.file) = 0)
           n == Cardinality(Claiming)
       IN unclaimed # <<>>
          => /\ parse.result.ok
             /\ Len(parse.result.groups) = n + Len(unclaimed)
             /\ \A u \in 1..Len(unclaimed) :
                   /\ parse.result.groups[n + u].files = <<unclaimed[u].file>>
                   /\ parse.result.groups[n + u].message =
                         generateFallbackMessage(unclaimed[u])
                   /\ parse.result.groups[n + u].confidence = FallbackConfidence

\* The message-format policy: no forbidden prefix, whatever the case of its
\* letters, and no word(scope): in front.
ConformsToPolicy(message) ==
    /\ \A prefix \in AVOID_PREFIXES : ~startsWith(toLowerCase(message), prefix)
    /\ ~CONVENTIONAL_COMMIT_PATTERNS(message)

\* C32: every group message that parseAggregatedResponse returns conforms to the
\* message-format policy, whatever messages the response holds.
C32_MessagesConform ==
    (parse.done /\ parse.result.ok)
    => \A g \in 1..Len(parse.result.groups) :
          ConformsToPolicy(parse.result.groups[g].message)

\* C28: every group returned by parseAggregatedResponse has a confidence within
\* [0, 1] (0 to 100 hundredths), whatever confidence values the response holds.
C28_ConfidenceInRange ==
    (parse.done /\ parse.result.ok)
    => \A g \in 1..Len(parse.result.groups) :
          /\ parse.result.groups[g].confidence >= 0
          /\ parse.result.groups[g].confidence <= 100

----------------------------------------------------------------------------
(* RequestBatcher.clear(): what becomes of the discarded registrations     *)

Discarded(p) == promises[p].cleared

\* C29 as stated: a handle whose registration clear() discarded never settles
\* afterwards, neither by resolving nor by rejecting.
C29_ClearedNeverSettle ==
    \A p \in 1..Len(promises) : Discarded(p) => ~Settled(p)

\* C29, amended: clear() removes the registrations from the pending table for
\* good; it cancels nothing: the producer of a discarded handle is still
\* invoked, at most once, and when the handle settles its callers observe the
\* outcome of that producer.
C29_ClearDiscardsOnly ==
    \A p \in 1..Len(promises) :
       Discarded(p)
       => /\ pendingRequests[promises[p].key] # p
          /\ producerCalls[p] <= 1
          /\ Settled(p) => producerCalls[p] = 1
          /\ \A c \in Callers :
                (callers[c].handle = p /\ callers[c].pc = "observed")
                => callers[c].seen = promises[p].outcome

\* clear() ran while two callers awaited one handle; the handle settled all the
\* same and both observed its outcome, and a call made after clear() with the
\* same key got a new handle.
C29_Witness ==
    \E p, q \in 1..Len(promises) :
       /\ Discarded(p) /\ Settled(p) /\ p < q
       /\ promises[q].key = promises[p].key
       /\ Cardinality({c \in Callers : callers[c].handle = p /\ callers[c].pc = "observed"}) >= 2
       /\ \E c \in Callers : callers[c].handle = q

\* C37: the settlement of an operation evicts only its own registration: an
\* operation that has not settled and that clear() did not discard is still the
\* one registered under its key, so a further batch() call with the key
\* coalesces with it.
C37_SettlementEvictsOwnOnly ==
    \A q \in 1..Len(promises) :
       (~Settled(q) /\ ~Discarded(q)) => pendingRequests[promises[q].key] = q

----------------------------------------------------------------------------
(* generateFallbackMessage: the shape of the message                       *)

endsWith(s, suffix) ==
    /\ Len(s) >= Len(suffix)
    /\ SubSeq(s, Len(s) - Len(suffix) + 1, Len(s)) = suffix

\* The message is the text of one shape around the last segment of the path.
Around(message, before, file, after) ==
    \E name \in {SubSeq(file, i, Len(file)) : i \in 1..Len(file)} :
       /\ \A i \in 1..Len(name) : name[i] # "/"
       /\ endsWith(file, name)
       /\ (Len(name) = Len(file) \/ file[Len(file) - Len(name)] = "/")
       /\ message = before \o name \o after

IsCreated(m, f) == Around(m, <<"C", "r", "e", "a", "t", "e", "d", " ", "n", "e", "w", " ">>, f, <<" ", "f", "i", "l", "e", " ", "w", "i", "t", "h", " ", "i", "n", "i", "t", "i", "a", "l", " ", "i", "m", "p", "l", "e", "m", "e", "n", "t", "a", "t", "i", "o", "n">>)

IsRemoved(m, f) == Around(m, <<"R", "e", "m", "o", "v", "e", "d", " ">>, f, <<" ", "f", "i", "l", "e", " ", "a", "s", " ", "i", "t", " ", "i", "s", " ", "n", "o", " ", "l", "o", "n", "g", "e", "r", " ", "n", "e", "e", "d", "e", "d">>)

IsAdded(m, f) == Around(m, <<"A", "d", "d", "e", "d", " ", "n", "e", "w", " ", "f", "u", "n", "c", "t", "i", "o", "n", "a", "l", "i", "t", "y", " ", "t", "o", " ">>, f, <<" ", "f", "i", "l", "e">>)

IsCleaned(m, f) == Around(m, <<"R", "e", "m", "o", "v", "e", "d", " ", "u", "n", "u", "s", "e", "d", " ", "c", "o", "d", "e", " ", "f", "r", "o", "m", " ">>, f, <<" ", "f", "i", "l", "e">>)

IsUpdated(m, f) == Around(m, <<"U", "p", "d", "a", "t", "e", "d", " ">>, f, <<" ", "f", "i", "l", "e", " ", "w", "i", "t", "h", " ", "c", "o", "d", "e", " ", "i", "m", "p", "r", "o", "v", "e", "m", "e", "n", "t", "s">>)

\* C33: generateFallbackMessage returns, for every change record, the message of
\* exactly one of five shapes, chosen by this priority: new file; deleted file;
\* additions > 2 x deletions; deletions > 2 x additions; otherwise updated.
C33_FallbackShapeByPriority ==
    fallbackCall.done
    => LET d == fallbackCall.diff
           m == fallbackCall.message
           more == d.additions > 2 * d.deletions
           less == d.deletions > 2 * d.additions
       IN /\ IsCreated(m, d.file) <=> d.isNew
          /\ IsRemoved(m, d.file) <=> (~d.isNew /\ d.isDeleted)
          /\ IsAdded(m, d.file) <=> (~d.isNew /\ ~d.isDeleted /\ more)
          /\ IsCleaned(m, d.file) <=> (~d.isNew /\ ~d.isDeleted /\ ~more /\ less)
          /\ IsUpdated(m, d.file) <=> (~d.isNew /\ ~d.isDeleted /\ ~more /\ ~less)

\* A record that is both new and deleted, with more deletions than additions,
\* got the message of a new file.
C33_Witness ==
    /\ fallbackCall.done
    /\ fallbackCall.diff.isNew /\ fallbackCall.diff.isDeleted
    /\ fallbackCall.diff.deletions > 2 * fallbackCall.diff.additions
    /\ fallbackCall.diff.file = <<"s", "r", "c", "/", "u", "t", "i", "l", "s", "/", "b", ".", "t", "s">>
    /\ IsCreated(fallbackCall.message, fallbackCall.diff.file)

----------------------------------------------------------------------------
(* PersistentAICache: hit and miss counters                                *)

\* The completed get() calls of the running process: those after its start.
GetsOfProcess ==
    LET restarts == {i \in 1..Len(cacheCalls) : cacheCalls[i].op = "restart"}
        start == IF restarts = {} THEN 0
                 ELSE CHOOSE i \in restarts : \A j \in restarts : i >= j
    IN {i \in (start + 1)..Len(cacheCalls) : cacheCalls[i].op = "get"}

\* C34: every completed get() counts once: a hit when it returns suggestions, a
\* miss when it returns absent, so hits + misses is the number of get() calls.
C34_HitMissAccounting ==
    /\ aiCache.stats.hits =
          Cardinality({i \in GetsOfProcess : cacheCalls[i].result.present})
    /\ aiCache.stats.misses =
          Cardinality({i \in GetsOfProcess : ~cacheCalls[i].result.present})

----------------------------------------------------------------------------
(* generateAggregatedCommits: a call served from the cache                  *)

\* The partition and the messages of a result: per group, its files and its message.
GroupsOf(result) ==
    {[files |-> FileSet(result.groups[i]), message |-> result.groups[i].message] :
        i \in 1..Len(result.groups)}

ServedFromCache ==
    /\ gen.pc = "done"
    /\ gen.first.ok
    /\ gen.log # <<>> /\ gen.log[Len(gen.log)].outcome = "cacheHit"

\* C35: a call served from the cache returns the groups of the call that
\* populated the cache: the same partition of the files and the same message per
\* group.
C35_CacheHitEquivalent ==
    ServedFromCache => GroupsOf(gen.result) = GroupsOf(gen.first)

----------------------------------------------------------------------------
(* handleWithRetry: properties                                             *)

Failed(i) == retryCall.invoked[i] \in OperationErrors

\* C38: handleWithRetry invokes operation at least once and at most maxRetries
\* times, returns the first successful result without a further invocation, and
\* after maxRetries consecutive failures rethrows the error of the last attempt.
C38_RetryContract ==
    LET n == Len(retryCall.invoked) IN
    /\ n <= retryCall.maxRetries
    /\ \A i \in 1..(n - 1) : Failed(i)
    /\ retryCall.pc = "returned"
          => /\ n >= 1 /\ ~Failed(n)
             /\ retryCall.returned = retryCall.invoked[n]
    /\ retryCall.pc = "threw"
          => /\ n >= 1 /\ n = retryCall.maxRetries /\ Failed(n)
             /\ retryCall.thrown = retryCall.invoked[n]

----------------------------------------------------------------------------
(* LRUCache: properties                                                    *)

SetOfNewKeyWhenFull ==
    /\ lru.last.op = "set"
    /\ lru.last.key \notin lru.last.before
    /\ Cardinality(lru.last.before) = lru.maxSize

\* C39: size() never exceeds maxSize; a set() of a new key into a cache that
\* holds maxSize entries evicts exactly one entry, the least recently used one,
\* and no other call of set() evicts anything.
C39_LruEviction ==
    /\ Len(lru.order) <= lru.maxSize
    /\ Len(lru.order) = Cardinality(KeysOf(lru.order))
    /\ lru.last.op = "set"
          => KeysOf(lru.order) =
                IF SetOfNewKeyWhenFull
                THEN (lru.last.before \ {lru.last.lru}) \cup {lru.last.key}
                ELSE lru.last.before \cup {lru.last.key}

\* A full cache whose oldest entry was returned by get() after the other was
\* set: the set() of a new key evicted the other one.
C39_Witness ==
    /\ SetOfNewKeyWhenFull
    /\ lru.maxSize = 2
    /\ lru.order = <<"a", "c">>
    /\ lru.last.before = {"a", "b"}
    /\ lru.used["a"] > lru.used["b"]
    /\ lru.used["b"] > 1

----------------------------------------------------------------------------
(* ProgressTracker: properties                                             *)

\* C40: current <= total and isComplete implies current = total in every state,
\* and once the tracker is complete no call of update(), increment() or
\* complete() changes current or isComplete.
C40_CompletionAbsorbing ==
    /\ [](/\ tracker.current <= tracker.total
          /\ tracker.isComplete => tracker.current = tracker.total)
    /\ [][tracker.isComplete
            => /\ tracker'.isComplete
               /\ tracker'.current = tracker.current]_vars

\* A complete tracker was called with update() of a value below its total and is
\* as it was.
C40_Witness ==
    /\ tracker.isComplete
    /\ tracker.last.wasComplete
    /\ tracker.last.op = "update"
    /\ tracker.last.arg < tracker.total
    /\ tracker.current = tracker.total

----------------------------------------------------------------------------
(* CommitX.commit: properties                                              *)

\* C31: with the dry-run option set, commit() never creates a commit:
\* gitService.commit is invoked neither in the AI-grouping workflow nor in the
\* traditional one.
C31_DryRunNeverCommits ==
    commitx.options.dryRun => (commitx.commitCalls = 0 /\ commitx.commits = <<>>)

\* A dry run of the AI-grouping workflow went through two groups.
C31_Witness ==
    /\ commitx.options.dryRun
    /\ commitx.pc = "done" /\ commitx.outcome = "processed"
    /\ Len(commitx.groups) = 2
    /\ commitx.processedCount = 2
    /\ commitx.commitCalls = 0

\* C36: in the AI-grouping workflow without dry-run, every commit created for a
\* group holds only files of that group.
C36_CommitHoldsOnlyItsGroup ==
    \A i \in 1..Len(commitx.commits) :
       commitx.commits[i].group # 0
       => commitx.commits[i].files \subseteq
             {commitx.groups[commitx.commits[i].group].files[k] :
                 k \in 1..Len(commitx.groups[commitx.commits[i].group].files)}

====
